---- MODULE Spec2Model ----
(***************************************************************************)
(* Model of the playback-synchronisation and rendering engine:             *)
(*   PlaybackManager  (src/lib/engine/PlaybackManager.ts)   the clock      *)
(*   AudioSynth       (src/unnamed/part_005)                the scheduler  *)
(*   NotePool         (src/unnamed/part_000)                the sprite pool*)
(*   WaterfallRenderer(src/lib/engine/WaterfallRenderer.ts) the render loop*)
(*   AppLayout        (src/unnamed/part_007)                the handlers   *)
(*                                                                         *)
(* Time.  Every time value (song seconds, AudioContext.currentTime,        *)
(* performance.now) is an integer number of 10-microsecond units, so that  *)
(* one second is Sec = 100000.  playbackRate is held as a percentage       *)
(* (100 is the source's 1.0); the hardware clock advances in whole         *)
(* milliseconds, so elapsed * rate / 100 is exact.  Where the source       *)
(* divides by the rate, the model compares after multiplying both sides by *)
(* the (positive) rate, which is exact as well.                            *)
(***************************************************************************)
EXTENDS Integers, Sequences, FiniteSets, TLC

VARIABLES
    pm,            \* the PlaybackManager singleton's fields + its listener's log
    ctxState,      \* AudioContext.state: "none" (not created), "suspended", "running"
    ctxTime,       \* AudioContext.currentTime
    perfNow,       \* performance.now()
    playPending,   \* play() calls suspended at `await this.ensureResumed()`
    lastOp,        \* the last clock call: its name, argument and return value
    chain,         \* last value of an uninterrupted run of getTime() reads, or None
    notes,         \* the loaded note list (ParsedMidi.notes), sorted by startTimeSec
    synth,         \* the AudioSynth's fields
    engine,        \* the sample engine: successful start() calls per note id
                   \* since the last stopAll()
    lastCall,      \* the last scheduleNotes call: its arguments and its triggers
    store,         \* the UI store: isPlaying, tempo, hand toggles, track count
    schedulerTimer, \* when the scheduler's setInterval fires next, or None
    seekFrom,      \* the position of a seek made during playback, until the
                   \* next transport action (None otherwise)
    pool,          \* the NotePool: capacity, active count, visible sprites
    poolLog,       \* slots acquire() returned in this round and in the last one
    renderer,      \* the WaterfallRenderer's fields
    keys,          \* pitches whose key element has dataset.active = 'true'
    frame,         \* what the last renderFrame did
    midiFile,      \* the tracks of the file handed to parseMidiFile
    parsed,        \* the ParsedMidi it returned (NoParse before the call)
    visibleCall    \* the last getVisibleNotes call: its arguments and result

clockVars == <<pm, ctxState, ctxTime, perfNow, playPending, lastOp, chain>>
synthVars == <<notes, synth, engine, lastCall>>
appVars == <<store, schedulerTimer, seekFrom>>
renderVars == <<pool, poolLog, renderer, keys, frame>>
parserVars == <<midiFile, parsed, visibleCall>>

vars == <<clockVars, synthVars, appVars, renderVars, parserVars>>

----------------------------------------------------------------------------
(* Units and bounds *)

Sec == 100 * 1000

None == 0 - 1

\* The hardware clock is followed up to MaxTime seconds.
MaxTime == 2

\* At most MaxPending play() calls are in flight at once.
MaxPending == 2

\* Amounts by which the hardware clock advances between two calls.
ClockSteps == {Sec \div 2, (3 * Sec) \div 2}

\* Song durations, seek targets and rates (percent) the calls are tried with.
Durations == {0, 2 * Sec}
SeekTargets == {0 - Sec, Sec, 5 * Sec}
Rates == {50, 200}

\* Note lists hold at most MaxNotes notes; note k of a list has id k - 1
\* (the parser's "n-<k-1>").
MaxNotes == 2
NoteIds == 0 .. MaxNotes

\* The engine's per-id counter stops counting at MaxCount.
MaxCount == 2

\* Pools of up to MaxPoolSize sprites are exercised on their own.
MaxPoolSize == 5

Max(a, b) == IF a >= b THEN a ELSE b
Min(a, b) == IF a <= b THEN a ELSE b

----------------------------------------------------------------------------
(* PlaybackManager *)

\* Field initialisers of the class; `calls` is what the registered listener
\* received during the current call, `ended` whether that call took
\* getTime()'s end-of-song branch.
PlaybackManagerInit ==
    [ audioContext     |-> FALSE,
      isPlaying        |-> FALSE,
      songPosition     |-> 0,
      playStartedAtCtx |-> 0,
      playbackRate     |-> 100,
      visualTime       |-> 0,
      lastVisualTick   |-> 0,
      duration         |-> 0,
      calls            |-> << >>,
      ended            |-> FALSE ]

\* A call starts with an empty listener log.
Enter(p) == [p EXCEPT !.calls = << >>, !.ended = FALSE]

RECURSIVE GetTime(_, _)
RECURSIVE NotifyListeners(_, _)

\* getTime() without the end-of-song branch
GetTimeNoClamp(p, now) ==
    IF ~p.isPlaying \/ ~p.audioContext
    THEN [ret |-> p.songPosition, pm |-> p]
    ELSE [ret |-> p.songPosition
                    + ((now - p.playStartedAtCtx) * p.playbackRate) \div 100,
          pm  |-> p]

\* getTime(): [ret |-> the value returned, pm |-> the fields afterwards]
GetTime(p, now) ==
    IF ~p.isPlaying \/ ~p.audioContext
    THEN [ret |-> p.songPosition, pm |-> p]
    ELSE LET elapsed == ((now - p.playStartedAtCtx) * p.playbackRate) \div 100
             t == p.songPosition + elapsed
         IN  IF t >= p.duration
             THEN [ret |-> p.duration,
                   pm  |-> NotifyListeners(
                              [p EXCEPT !.songPosition = p.duration,
                                        !.isPlaying = FALSE,
                                        !.ended = TRUE], now)]
             ELSE [ret |-> t, pm |-> p]

\* notifyListeners(): reads getTime(), then calls the listener once
NotifyListeners(p, now) ==
    LET r == GetTime(p, now)
    IN  [r.pm EXCEPT !.calls = Append(@, <<r.ret, r.pm.isPlaying>>)]

\* a drift correction that corrects nothing
NudgeNone(drift) == 0

\* drift * 0.01, to the model's time unit (rounded toward zero)
Nudge(drift) ==
    IF drift >= 0 THEN drift \div 100 ELSE 0 - ((0 - drift) \div 100)

\* getVisualTime(): the smoothed clock read by the renderer.  Unlike
\* getTime() it never stops playback and never notifies.
GetVisualTime(p, now, perf) ==
    IF ~p.isPlaying \/ ~p.audioContext
    THEN [ret |-> p.songPosition, pm |-> p]
    ELSE LET audioElapsed == ((now - p.playStartedAtCtx) * p.playbackRate) \div 100
             trueAudioTime == p.songPosition + audioElapsed
             delta == perf - p.lastVisualTick
             stepped == p.visualTime + (delta * p.playbackRate) \div 100
             drift == trueAudioTime - stepped
             visual == IF drift > (5 * Sec) \div 100 \/ 0 - drift > (5 * Sec) \div 100
                       THEN trueAudioTime
                       ELSE stepped + Nudge(drift)
             q == [p EXCEPT !.lastVisualTick = perf, !.visualTime = visual]
         IN  [ret |-> IF visual >= p.duration THEN p.duration ELSE visual,
              pm |-> q]


\* play() after its await: anchor, sync the visual clock, notify
PlayBody(p, now, perf) ==
    NotifyListeners([p EXCEPT !.audioContext = TRUE,
                              !.playStartedAtCtx = now,
                              !.lastVisualTick = perf,
                              !.visualTime = p.songPosition,
                              !.isPlaying = TRUE], now)

\* pause() that does not capture the position
PauseNoCapture(p, now) ==
    IF ~p.isPlaying THEN p
    ELSE NotifyListeners([p EXCEPT !.isPlaying = FALSE], now)

\* pause()
PauseBody(p, now) ==
    IF ~p.isPlaying THEN p
    ELSE LET r == GetTime(p, now)
         IN  NotifyListeners([r.pm EXCEPT !.songPosition = r.ret,
                                          !.visualTime = r.ret,
                                          !.isPlaying = FALSE], now)

\* stop() that keeps the position
StopNoReset(p, now) ==
    NotifyListeners([p EXCEPT !.isPlaying = FALSE], now)

\* stop()
StopBody(p, now) ==
    NotifyListeners([p EXCEPT !.songPosition = 0,
                              !.visualTime = 0,
                              !.isPlaying = FALSE], now)

\* seek() that keeps the old reference tick
SeekNoReanchor(p, timeSec, now, perf) ==
    LET pos == Max(0, Min(timeSec, p.duration))
    IN  NotifyListeners([p EXCEPT !.songPosition = pos, !.visualTime = pos], now)

\* seek(timeSec)
SeekBody(p, timeSec, now, perf) ==
    LET wasPlaying == p.isPlaying
        pos == Max(0, Min(timeSec, p.duration))
        p1 == [p EXCEPT !.songPosition = pos]
        p2 == IF wasPlaying /\ p.audioContext
              THEN [p1 EXCEPT !.playStartedAtCtx = now, !.lastVisualTick = perf]
              ELSE p1
    IN  NotifyListeners([p2 EXCEPT !.visualTime = pos], now)

\* setPlaybackRate(rate) that also creates the AudioContext
SetRateCreatesClock(p, rate, now, perf) ==
    [p EXCEPT !.playbackRate = rate, !.audioContext = TRUE]

\* setPlaybackRate(rate) that only stores the rate
SetRateNoCapture(p, rate, now, perf) == [p EXCEPT !.playbackRate = rate]

\* setPlaybackRate(rate)
SetPlaybackRateBody(p, rate, now, perf) ==
    IF p.isPlaying
    THEN LET r == GetTime(p, now)
             p1 == [r.pm EXCEPT !.songPosition = r.ret]
             p2 == IF p1.audioContext
                   THEN [p1 EXCEPT !.playStartedAtCtx = now]
                   ELSE p1
         IN  [p2 EXCEPT !.lastVisualTick = perf,
                        !.visualTime = p2.songPosition,
                        !.playbackRate = rate]
    ELSE [p EXCEPT !.playbackRate = rate]

----------------------------------------------------------------------------
(* The clock's calls as actions *)

Op(name, arg, ret) == [op |-> name, arg |-> arg, ret |-> ret]

\* The hardware clocks advance; AudioContext.currentTime only while running.
AdvanceBy(steps) ==
    /\ perfNow < MaxTime * Sec
    /\ \E d \in steps :
          /\ perfNow' = perfNow + d
          /\ ctxTime' = IF ctxState = "running" THEN ctxTime + d ELSE ctxTime
    /\ lastOp' = Op("advance", None, None)
    /\ UNCHANGED <<pm, ctxState, playPending, chain>>

\* ctx.resume() completes
AdvanceClock == AdvanceBy(ClockSteps)

ResumeDone ==
    /\ ctxState = "suspended"
    /\ playPending > 0
    /\ ctxState' = "running"
    /\ UNCHANGED <<pm, ctxTime, perfNow, playPending, lastOp, chain>>

\* play() that does not look at _isPlaying
PlayNoGuard(p) == FALSE

\* play()'s first line: `if (this._isPlaying) return`
PlayGuard(p) == p.isPlaying

\* play() up to its await: the guard, then ensureResumed() creates the
\* AudioContext (suspended or running, as the autoplay policy decides).
Play ==
    IF PlayGuard(pm)
    THEN /\ pm' = Enter(pm)
         /\ lastOp' = Op("play", None, None)
         /\ chain' = None
         /\ UNCHANGED <<ctxState, ctxTime, perfNow, playPending>>
    ELSE /\ playPending < MaxPending
         /\ pm' = [Enter(pm) EXCEPT !.audioContext = TRUE]
         /\ ctxState' \in IF ctxState = "none" THEN {"suspended", "running"}
                          ELSE {ctxState}
         /\ playPending' = playPending + 1
         /\ lastOp' = Op("play", None, None)
         /\ chain' = None
         /\ UNCHANGED <<ctxTime, perfNow>>

\* play() from its await on
PlayResume ==
    /\ playPending > 0
    /\ ctxState = "running"
    /\ playPending' = playPending - 1
    /\ pm' = PlayBody(Enter(pm), ctxTime, perfNow)
    /\ lastOp' = Op("playResume", None, None)
    /\ chain' = None
    /\ UNCHANGED <<ctxState, ctxTime, perfNow>>

Pause ==
    /\ pm' = PauseBody(Enter(pm), ctxTime)
    /\ lastOp' = Op("pause", None, None)
    /\ chain' = None
    /\ UNCHANGED <<ctxState, ctxTime, perfNow, playPending>>

Stop ==
    /\ pm' = StopBody(Enter(pm), ctxTime)
    /\ lastOp' = Op("stop", None, None)
    /\ chain' = None
    /\ UNCHANGED <<ctxState, ctxTime, perfNow, playPending>>

Seek ==
    \E t \in SeekTargets :
        /\ pm' = SeekBody(Enter(pm), t, ctxTime, perfNow)
        /\ lastOp' = Op("seek", t, None)
        /\ chain' = None
        /\ UNCHANGED <<ctxState, ctxTime, perfNow, playPending>>

SetPlaybackRate ==
    \E r \in Rates :
        /\ pm' = SetPlaybackRateBody(Enter(pm), r, ctxTime, perfNow)
        /\ lastOp' = Op("setPlaybackRate", r, None)
        /\ chain' = None
        /\ UNCHANGED <<ctxState, ctxTime, perfNow, playPending>>

\* the duration setter
SetDuration ==
    \E d \in Durations :
        /\ pm' = [Enter(pm) EXCEPT !.duration = d]
        /\ lastOp' = Op("setDuration", d, None)
        /\ chain' = None
        /\ UNCHANGED <<ctxState, ctxTime, perfNow, playPending>>

\* A caller reads getTime().  A run of reads starts with a read made while
\* Playing and lasts until any other call.
GetTimeRead ==
    LET r == GetTime(Enter(pm), ctxTime)
    IN  /\ pm' = r.pm
        /\ lastOp' = Op("getTime", None, r.ret)
        /\ chain' = IF pm.isPlaying \/ chain # None THEN r.ret ELSE None
        /\ UNCHANGED <<ctxState, ctxTime, perfNow, playPending>>


\* The renderer reads getVisualTime().
GetVisualTimeRead ==
    LET r == GetVisualTime(Enter(pm), ctxTime, perfNow)
    IN  /\ pm' = r.pm
        /\ lastOp' = Op("getVisualTime", None, r.ret)
        /\ chain' = None
        /\ UNCHANGED <<ctxState, ctxTime, perfNow, playPending>>

----------------------------------------------------------------------------
(* NoteEvent and note lists *)

\* A NoteEvent; velocity is not read by any condition of the engine.
Note(id, pitch, start, dur, track) ==
    [ id           |-> id,
      pitch        |-> pitch,
      startTimeSec |-> start,
      endTimeSec   |-> start + dur,
      durationSec  |-> dur,
      velocity     |-> 100,
      trackId      |-> track ]

IsSorted(ns) ==
    \A i \in 1 .. Len(ns) - 1 : ns[i].startTimeSec <= ns[i + 1].startTimeSec

\* All sorted lists of at most MaxNotes notes whose (pitch, start, duration,
\* track) are drawn from T.
NoteListsOver(T) ==
    LET shapes == UNION {[1 .. n -> T] : n \in 0 .. MaxNotes}
        mk(f) == [k \in 1 .. Len(f) |->
                     Note(k - 1, f[k][1], f[k][2], f[k][3], f[k][4])]
    IN  {ns \in {mk(f) : f \in shapes} : IsSorted(ns)}

----------------------------------------------------------------------------
(* parseMidiFile: the tracks of a file flattened, sorted and measured *)

\* A note of a @tonejs/midi track: time and duration in seconds, velocity
\* normalised to 0..1 and held here as its numerator over 127.
RawNote(midi, time, duration, velocity) ==
    [midi |-> midi, time |-> time, duration |-> duration, velocity |-> velocity]

\* Math.round(note.velocity * 127) for note.velocity = v / 127
RoundVelocity(v) == (2 * v * 127 + 127) \div (2 * 127)

\* the object pushed for one note of a track; the id `n-<counter>` is kept
\* as its counter
NoteEvent(noteIdCounter, note, trackIndex) ==
    [ id           |-> noteIdCounter,
      pitch        |-> note.midi,
      startTimeSec |-> note.time,
      endTimeSec   |-> note.time + note.duration,
      durationSec  |-> note.duration,
      velocity     |-> RoundVelocity(note.velocity),
      trackId      |-> trackIndex ]

RECURSIVE PushTrack(_, _, _)
\* track.notes.forEach((note) => notes.push({id: `n-${noteIdCounter++}`, ...}))
PushTrack(track, trackIndex, acc) ==
    IF track = << >> THEN acc
    ELSE PushTrack(Tail(track), trackIndex,
             [notes |-> Append(acc.notes,
                               NoteEvent(acc.noteIdCounter, Head(track), trackIndex)),
              noteIdCounter |-> acc.noteIdCounter + 1])

RECURSIVE Flatten(_, _, _)
\* midi.tracks.forEach((track, trackIndex) => ...), trackIndex from 0
Flatten(tracks, trackIndex, acc) ==
    IF trackIndex >= Len(tracks) THEN acc
    ELSE Flatten(tracks, trackIndex + 1,
                 PushTrack(tracks[trackIndex + 1], trackIndex, acc))

\* A mutant of InsertByStart: the note is left where it was pushed.
InsertAtEnd(sorted, n) == Append(sorted, n)

\* One step of the stable sort by `a.startTimeSec - b.startTimeSec`: n goes
\* behind every note that starts no later than it.
InsertByStart(sorted, n) ==
    LET k == Cardinality({i \in 1 .. Len(sorted) :
                             sorted[i].startTimeSec <= n.startTimeSec})
    IN  SubSeq(sorted, 1, k) \o <<n>> \o SubSeq(sorted, k + 1, Len(sorted))

RECURSIVE SortByStart(_)
\* notes.sort((a, b) => a.startTimeSec - b.startTimeSec); Array.prototype.sort
\* is stable
SortByStart(ns) ==
    IF ns = << >> THEN << >>
    ELSE InsertByStart(SortByStart(SubSeq(ns, 1, Len(ns) - 1)), ns[Len(ns)])

\* A mutant of DurationOf: the end of the note that starts last.
DurationOfLast(ns) == IF Len(ns) = 0 THEN 0 ELSE ns[Len(ns)].endTimeSec

\* parseMidiFile's durationSec: the largest endTimeSec, 0 for no notes
DurationOf(ns) ==
    IF Len(ns) = 0 THEN 0
    ELSE CHOOSE d \in {ns[k].endTimeSec : k \in 1 .. Len(ns)} :
             \A k \in 1 .. Len(ns) : ns[k].endTimeSec <= d

\* parseMidiFile(buffer), for the tracks @tonejs/midi decoded from the buffer
ParseMidiFile(tracks) ==
    LET flat == Flatten(tracks, 0, [notes |-> << >>, noteIdCounter |-> 0]).notes
        sorted == SortByStart(flat)
    IN  [ notes       |-> sorted,
          durationSec |-> DurationOf(sorted),
          trackCount  |-> Len(tracks) ]

NoMidi == << >>
NoParse == [notes |-> << >>, durationSec |-> 0, trackCount |-> None]

----------------------------------------------------------------------------
(* Searching the sorted list *)

\* a search that always answers 0: the scan starts at the head of the list
BinarySearchFromHead(ns, t, lo, hi) == 0

RECURSIVE BinarySearch(_, _, _, _)
\* `while (lo < hi) { mid = (lo + hi) >>> 1; ... }` over 0-based indices:
\* the first index whose note starts at or after t.
BinarySearch(ns, t, lo, hi) ==
    IF lo < hi
    THEN LET mid == (lo + hi) \div 2
         IN  IF ns[mid + 1].startTimeSec < t
             THEN BinarySearch(ns, t, mid + 1, hi)
             ELSE BinarySearch(ns, t, lo, mid)
    ELSE lo

\* findFirstNoteIndex(notes, time), 0-based
FindFirstNoteIndex(ns, time) == BinarySearch(ns, time, 0, Len(ns))

RECURSIVE WalkBack(_, _, _)
\* `while (startIdx > 0 && notes[startIdx - 1].endTimeSec > windowStart)
\*     startIdx--`; notes[startIdx - 1] is ns[startIdx] here.
WalkBack(ns, startIdx, windowStart) ==
    IF startIdx > 0 /\ ns[startIdx].endTimeSec > windowStart
    THEN WalkBack(ns, startIdx - 1, windowStart)
    ELSE startIdx

RECURSIVE CollectVisible(_, _, _, _, _)
\* the loop `for (let i = startIdx; i < notes.length; i++)` from 0-based i
\* on, with `visible` as collected so far
CollectVisible(ns, i, windowStart, windowEnd, visible) ==
    IF i >= Len(ns) \/ ns[i + 1].startTimeSec > windowEnd
    THEN visible
    ELSE CollectVisible(ns, i + 1, windowStart, windowEnd,
             IF ns[i + 1].endTimeSec > windowStart
             THEN Append(visible, ns[i + 1])
             ELSE visible)

\* getVisibleNotes(notes, currentTime, lookaheadSec)
GetVisibleNotes(ns, currentTime, lookaheadSec) ==
    IF Len(ns) = 0
    THEN << >>
    ELSE LET windowStart == currentTime
             windowEnd == currentTime + lookaheadSec
             startIdx == WalkBack(ns, FindFirstNoteIndex(ns, windowStart),
                                  windowStart)
         IN  CollectVisible(ns, startIdx, windowStart, windowEnd, << >>)

\* No getVisibleNotes call made yet.
NoVisible ==
    [called |-> FALSE, currentTime |-> 0, lookaheadSec |-> 0, ret |-> << >>]

----------------------------------------------------------------------------
(* AudioSynth *)

\* scheduleNotes looks ahead 4 s and drops attacks more than 30 ms late.
Lookahead == 4 * Sec
StaleTolerance == (3 * Sec) \div 100

\* `muted` is the master gain ramped to zero by silence().
AudioSynthInit ==
    [ loaded         |-> FALSE,
      muted          |-> FALSE,
      scheduledNotes |-> {} ]

\* One scheduleNotes call: a.notes, a.songStartCtxTime, a.songOffset,
\* a.playbackRate (percent), a.mutedTracks, a.now (ctx.currentTime inside
\* the call) and a.failing (the ids on which soundfont.start() throws).
CallArgs(ns, songStartCtxTime, songOffset, playbackRate, mutedTracks, now, failing) ==
    [ notes            |-> ns,
      songStartCtxTime |-> songStartCtxTime,
      songOffset       |-> songOffset,
      playbackRate     |-> playbackRate,
      mutedTracks      |-> mutedTracks,
      now              |-> now,
      failing          |-> failing ]

\* a window test that never stops the scan
PastWindowNever(note, a) == FALSE

\* ctxTime = songStartCtxTime + (start - songOffset) / playbackRate, compared
\* with maxLookahead = ctx.currentTime + 4:   ctxTime > maxLookahead
PastWindow(note, a) ==
    (note.startTimeSec - a.songOffset) * 100
        > (a.now + Lookahead - a.songStartCtxTime) * a.playbackRate

\* a staleness test that never skips
StaleNever(note, a) == FALSE

\* ctxTime < ctx.currentTime - 0.03
Stale(note, a) ==
    (note.startTimeSec - a.songOffset) * 100
        < (a.now - StaleTolerance - a.songStartCtxTime) * a.playbackRate

\* a mute test that never skips
IsMutedNever(note, mutedTracks) == FALSE

\* `mutedTracks.has(note.trackId)`
IsMuted(note, mutedTracks) == note.trackId \in mutedTracks

\* a dedup test that never skips
AlreadyScheduledNever(scheduled, note) == FALSE

\* `this.scheduledNotes.has(note.id)`
AlreadyScheduled(scheduled, note) == note.id \in scheduled

RECURSIVE ScheduleLoopCountsThrown(_, _, _)
\* the loop with `scheduled++` and `scheduledNotes.add` ahead of start():
\* a note whose start() throws is counted and recorded all the same
ScheduleLoopCountsThrown(a, i, acc) ==
    IF i >= Len(a.notes) THEN acc
    ELSE LET note == a.notes[i + 1]
         IN  IF PastWindow(note, a) THEN acc
             ELSE IF \/ IsMuted(note, a.mutedTracks)
                     \/ AlreadyScheduled(acc.scheduledNotes, note)
                     \/ note.endTimeSec <= a.songOffset
                     \/ Stale(note, a)
                  THEN ScheduleLoopCountsThrown(a, i + 1, acc)
             ELSE ScheduleLoopCountsThrown(a, i + 1,
                      [scheduledNotes |-> acc.scheduledNotes \cup {note.id},
                       started        |-> IF note.id \in a.failing
                                          THEN acc.started
                                          ELSE Append(acc.started, note.id),
                       scheduled      |-> acc.scheduled + 1])

RECURSIVE ScheduleLoop(_, _, _)
\* `for (let i = lo; i < notes.length; i++)`: acc.scheduledNotes is the dedup
\* set, acc.started the ids whose start() returned, in call order, and
\* acc.scheduled the counter `scheduled`.
ScheduleLoop(a, i, acc) ==
    IF i >= Len(a.notes) THEN acc
    ELSE LET note == a.notes[i + 1]
         IN  IF PastWindow(note, a) THEN acc
             ELSE IF IsMuted(note, a.mutedTracks) THEN ScheduleLoop(a, i + 1, acc)
             ELSE IF AlreadyScheduled(acc.scheduledNotes, note)
                  THEN ScheduleLoop(a, i + 1, acc)
             ELSE IF note.endTimeSec <= a.songOffset THEN ScheduleLoop(a, i + 1, acc)
             ELSE IF Stale(note, a) THEN ScheduleLoop(a, i + 1, acc)
             ELSE IF note.id \in a.failing THEN ScheduleLoop(a, i + 1, acc)
             ELSE ScheduleLoop(a, i + 1,
                      [scheduledNotes |-> acc.scheduledNotes \cup {note.id},
                       started        |-> Append(acc.started, note.id),
                       scheduled      |-> acc.scheduled + 1])

\* scheduleNotes() whose first throwing start() ends the call: the notes
\* behind the first failing id are never reached.
ScheduleNotesAborting(s, a) ==
    IF ~s.loaded THEN [synth |-> s, started |-> << >>, count |-> 0]
    ELSE LET bad == {k \in 1 .. Len(a.notes) : a.notes[k].id \in a.failing}
             last == IF bad = {} THEN Len(a.notes)
                     ELSE CHOOSE k \in bad : \A j \in bad : k <= j
             cut == [a EXCEPT !.notes = SubSeq(a.notes, 1, last)]
             lo == BinarySearch(cut.notes, a.songOffset, 0, Len(cut.notes))
             r == ScheduleLoop(cut, lo, [scheduledNotes |-> s.scheduledNotes,
                                         started        |-> << >>,
                                         scheduled      |-> 0])
         IN  [synth   |-> [s EXCEPT !.muted = FALSE,
                                    !.scheduledNotes = r.scheduledNotes],
              started |-> r.started,
              count   |-> r.scheduled]

\* scheduleNotes(): [synth |-> the fields afterwards, started |-> the ids
\* triggered, count |-> the value returned]
ScheduleNotes(s, a) ==
    IF ~s.loaded THEN [synth |-> s, started |-> << >>, count |-> 0]
    ELSE LET lo == BinarySearch(a.notes, a.songOffset, 0, Len(a.notes))
             r == ScheduleLoop(a, lo, [scheduledNotes |-> s.scheduledNotes,
                                       started        |-> << >>,
                                       scheduled      |-> 0])
         IN  [synth   |-> [s EXCEPT !.muted = FALSE,
                                    !.scheduledNotes = r.scheduledNotes],
              started |-> r.started,
              count   |-> r.scheduled]

\* silence() that also forgets what was triggered
SilenceForgets(s) == [s EXCEPT !.muted = TRUE, !.scheduledNotes = {}]

\* silence()
Silence(s) == [s EXCEPT !.muted = TRUE]

\* stopAll()
StopAll(s) == [Silence(s) EXCEPT !.scheduledNotes = {}]

\* The engine after start() returned for each id of `started`.
EngineStarted(e, started) ==
    [id \in NoteIds |->
        Min(MaxCount, e[id] + Cardinality({k \in 1 .. Len(started) : started[k] = id}))]

NoCall ==
    [ args    |-> CallArgs(<< >>, 0, 0, 100, {}, 0, {}),
      loaded  |-> FALSE,
      before  |-> {},
      started |-> << >>,
      count   |-> 0 ]

\* What a scheduleNotes call with arguments a does to the synth variables.
DoSchedule(a) ==
    LET r == ScheduleNotes(synth, a)
    IN  /\ synth' = r.synth
        /\ engine' = EngineStarted(engine, r.started)
        /\ lastCall' = [ args    |-> [a EXCEPT !.notes = << >>],
                         loaded  |-> synth.loaded,
                         before  |-> synth.scheduledNotes,
                         started |-> r.started,
                         count   |-> r.count ]

----------------------------------------------------------------------------
(* The UI store *)

\* The store's initial state; trackCount is ParsedMidi.trackCount of the
\* loaded file (two tracks: right hand 0, left hand 1).
StoreInit ==
    [ isPlaying       |-> FALSE,
      tempo           |-> 100,
      leftHandActive  |-> TRUE,
      rightHandActive |-> TRUE,
      trackCount      |-> 2 ]

----------------------------------------------------------------------------
(* NotePool *)

\* A pool of `size` pre-allocated sprites, all hidden; slot k is pool[k].
NotePoolInit(size) ==
    [poolSize |-> size, activeCount |-> 0, visible |-> {}]

\* mutant of PoolExhausted: the capacity test off by one
PoolExhaustedOffByOne(np) == np.activeCount > np.poolSize

\* acquire()'s early return
PoolExhausted(np) == np.activeCount >= np.poolSize

\* acquire(): the slot handed out (None for null) and the pool afterwards
Acquire(np) ==
    IF PoolExhausted(np)
    THEN [ret |-> None, pool |-> np]
    ELSE [ret |-> np.activeCount,
          pool |-> [np EXCEPT !.visible = @ \cup {np.activeCount},
                              !.activeCount = @ + 1]]

\* mutant of ReleaseAll: nothing is handed back
ReleaseAllNothing(np) == np

\* releaseAll()
ReleaseAll(np) ==
    [np EXCEPT !.visible = @ \ (0 .. np.activeCount - 1), !.activeCount = 0]

\* The pool's callers' view: the last call, the active count it found, what
\* it returned, the slots handed out since the last releaseAll() (`round`)
\* and between the two before it (`prev`).
NoPoolLog ==
    [op |-> "new", before |-> 0, ret |-> None, round |-> << >>, prev |-> << >>]

LogAcquire(log, np, ret) ==
    [log EXCEPT !.op = "acquire", !.before = np.activeCount, !.ret = ret,
                !.round = IF ret = None THEN @ ELSE Append(@, ret)]

LogReleaseAll(log, np) ==
    [log EXCEPT !.op = "releaseAll", !.before = np.activeCount, !.ret = None,
                !.prev = log.round, !.round = << >>]

----------------------------------------------------------------------------
(* WaterfallRenderer *)

MIDI_MIN == 21
MIDI_MAX == 108

\* The renderer's fields after construction: no Application, no pool, no
\* key element cached, no callback on the ticker.
RendererInit ==
    [ app             |-> FALSE,
      ticker          |-> FALSE,
      notePool        |-> FALSE,
      keysCached      |-> FALSE,
      notes           |-> << >>,
      leftHandActive  |-> TRUE,
      rightHandActive |-> TRUE,
      activeThisFrame |-> {},
      activeLastFrame |-> {},
      pixelsPerSecond |-> 200,
      canvasHeight    |-> 0,
      strikeLineY     |-> 0 ]

\* init(), run to its end: the Application and the pool exist, the key
\* elements are cached and renderFrame is on the ticker.
RendererStarted(r) ==
    [r EXCEPT !.app = TRUE, !.notePool = TRUE, !.keysCached = TRUE,
              !.ticker = TRUE]

\* loadNotes(midi)
LoadNotes(r, ns) == [r EXCEPT !.notes = ns]

\* recalculateLayout() for a canvas h pixels high
RecalculateLayout(r, h) ==
    [r EXCEPT !.canvasHeight = h, !.strikeLineY = h - 4]

\* keyValid[pitch]: the 88 keys have metrics, nothing else does
KeyValid(pitch) == pitch \in MIDI_MIN .. MIDI_MAX

\* What a frame did: whether it got past the early return, the time it
\* read, the ids it kept after the window tests, the ids it drew, whether
\* the pool ran out, and the signals sent to the key elements, in order;
\* and, once destroy() has run, what its steps did.
NoFrame ==
    [ran |-> FALSE, time |-> 0, kept |-> << >>, drawn |-> << >>,
     exhausted |-> FALSE, signals |-> << >>, steps |-> << >>]

\* `note.startTimeSec > windowEnd`, windowEnd = time + canvasH / pps
AfterWindow(note, r, time) ==
    (note.startTimeSec - time) * r.pixelsPerSecond > r.canvasHeight * Sec

\* windowStart = time - 0.5
WindowStart(time) == time - Sec \div 2

\* `note.endTimeSec < windowStart`
BeforeWindow(note, time) == note.endTimeSec < WindowStart(time)

\* searchTime = Math.max(0, windowStart - 10.0)
SearchTime(time) == Max(0, WindowStart(time) - 10 * Sec)

\* track muting by hand toggle
TrackHidden(note, r) ==
    \/ ~r.rightHandActive /\ note.trackId = 0
    \/ ~r.leftHandActive /\ note.trackId = 1

\* `(noteTopY + noteHeight) < 0 || noteTopY > canvasH`, in pixel * Sec
OffScreen(note, r, time) ==
    LET bottom == r.strikeLineY * Sec
                     - (note.startTimeSec - time) * r.pixelsPerSecond
        height == note.durationSec * r.pixelsPerSecond
        top == bottom - height
    IN  top + height < 0 \/ top > r.canvasHeight * Sec

\* `time >= note.startTimeSec && time <= note.endTimeSec`
Sounding(note, time) == time >= note.startTimeSec /\ time <= note.endTimeSec

RECURSIVE RenderLoop(_, _, _, _)
\* The loop over notes[i..] (1-based i); acc carries the pool, its log, the
\* ids kept and drawn, and the pitches marked active.
RenderLoop(r, time, i, acc) ==
    IF i > Len(r.notes) THEN acc
    ELSE LET note == r.notes[i]
         IN  IF AfterWindow(note, r, time) THEN acc
             ELSE IF BeforeWindow(note, time)
             THEN RenderLoop(r, time, i + 1, acc)
             ELSE LET acc1 == [acc EXCEPT !.kept = Append(@, note.id)]
                  IN  IF \/ TrackHidden(note, r)
                         \/ ~KeyValid(note.pitch)
                         \/ OffScreen(note, r, time)
                      THEN RenderLoop(r, time, i + 1, acc1)
                      ELSE LET a == Acquire(acc1.pool)
                               log == LogAcquire(acc1.log, acc1.pool, a.ret)
                           IN  IF a.ret = None
                               THEN [acc1 EXCEPT !.log = log, !.exhausted = TRUE]
                               ELSE RenderLoop(r, time, i + 1,
                                      [acc1 EXCEPT
                                         !.pool = a.pool,
                                         !.log = log,
                                         !.drawn = Append(@, note.id),
                                         !.active = IF Sounding(note, time)
                                                    THEN @ \cup {note.pitch}
                                                    ELSE @])

\* mutant of SwapActive: the two bitsets are not exchanged
SwapActiveSkipped(r) == [r EXCEPT !.activeThisFrame = {}]

\* the double-buffer swap, then activeThisFrame.fill(0)
SwapActive(r) ==
    [r EXCEPT !.activeLastFrame = r.activeThisFrame, !.activeThisFrame = {}]

\* The key a pitch's flip signals: wasActive && !isActive sends 'false',
\* !wasActive && isActive sends 'true', anything else nothing.
KeySignal(r, p) ==
    LET wasActive == p \in r.activeLastFrame
        isActive == p \in r.activeThisFrame
    IN  IF wasActive /\ ~isActive THEN "deactivate"
        ELSE IF ~wasActive /\ isActive THEN "activate"
        ELSE "none"

RECURSIVE InPitchOrder(_, _)
\* the signals for the pitches of S, lowest pitch first
InPitchOrder(r, S) ==
    IF S = {} THEN << >>
    ELSE LET p == CHOOSE x \in S : \A y \in S : x <= y
         IN  <<<<KeySignal(r, p), p>>>> \o InPitchOrder(r, S \ {p})

\* The key bridge: one pass over the pitches MIDI_MIN .. MIDI_MAX; the DOM
\* keys afterwards and the signals sent.  Every key element is cached (the
\* keyboard is mounted).
KeyBridge(r, ks) ==
    LET flipped == {p \in MIDI_MIN .. MIDI_MAX : KeySignal(r, p) # "none"}
    IN  [keys |-> (ks \ {p \in flipped : KeySignal(r, p) = "deactivate"})
                     \cup {p \in flipped : KeySignal(r, p) = "activate"},
         signals |-> InPitchOrder(r, flipped)]

\* renderFrame(): everything one frame changes.  The pool always exists
\* once the renderer is initialised.
RenderFrameBody(r, p, np, log, ks, now, perf) ==
    IF ~r.notePool \/ Len(r.notes) = 0
    THEN [renderer |-> r, pm |-> p, pool |-> np, log |-> log, keys |-> ks,
          frame |-> NoFrame]
    ELSE LET t == GetVisualTime(p, now, perf)
             time == t.ret
             r1 == SwapActive(r)
             lo == BinarySearch(r.notes, SearchTime(time), 0, Len(r.notes))
             acc == RenderLoop(r1, time, lo + 1,
                       [pool |-> ReleaseAll(np), log |-> LogReleaseAll(log, np),
                        kept |-> << >>, drawn |-> << >>, active |-> {},
                        exhausted |-> FALSE])
             r2 == [r1 EXCEPT !.activeThisFrame = acc.active]
             kb == KeyBridge(r2, ks)
         IN  [renderer |-> r2, pm |-> t.pm, pool |-> acc.pool, log |-> acc.log,
              keys |-> kb.keys,
              frame |-> [ran |-> TRUE, time |-> time, kept |-> acc.kept,
                         drawn |-> acc.drawn, exhausted |-> acc.exhausted,
                         signals |-> kb.signals, steps |-> << >>]]

\* NotePool.destroy(): the container goes with all its sprites
NotePoolDestroy(np) == [np EXCEPT !.visible = {}]

\* What destroy() has done so far: the fields, and after each of its steps
\* what could be seen then.
DestroySeen(d, name) ==
    [d EXCEPT !.steps = Append(@, [step     |-> name,
                                   ticker   |-> d.renderer.ticker,
                                   keys     |-> d.keys,
                                   notePool |-> d.renderer.notePool])]

\* `if (this.app) this.app.ticker.remove(this.boundRenderFrame)`
DetachFrameCallback(d) ==
    IF d.renderer.app
    THEN DestroySeen([d EXCEPT !.renderer.ticker = FALSE], "detach")
    ELSE d

\* the loop `el.dataset.active = 'false'` over the cached key elements
DeactivateKeys(d) ==
    IF d.renderer.keysCached
    THEN DestroySeen([d EXCEPT !.keys = {}], "keys")
    ELSE d

\* `if (this.notePool) { this.notePool.destroy(); this.notePool = null }`
DestroyPool(d) ==
    IF d.renderer.notePool
    THEN DestroySeen([d EXCEPT !.pool = NotePoolDestroy(d.pool),
                               !.renderer.notePool = FALSE], "pool")
    ELSE d

\* the Application destroyed and the key cache emptied
DestroyApp(d) ==
    [d EXCEPT !.renderer.app = FALSE, !.renderer.keysCached = FALSE]

\* destroy() with the pool destroyed before the keys are cleared
DestroyPoolFirst(r, np, ks) ==
    DestroyApp(DeactivateKeys(DestroyPool(DetachFrameCallback(
        [renderer |-> r, pool |-> np, keys |-> ks, steps |-> << >>]))))

\* destroy()
Destroy(r, np, ks) ==
    DestroyApp(DestroyPool(DeactivateKeys(DetachFrameCallback(
        [renderer |-> r, pool |-> np, keys |-> ks, steps |-> << >>]))))

----------------------------------------------------------------------------
(* The scheduler called directly, with arguments of the caller's choice *)

\* One-second notes of pitch 60 on tracks 0 and 1, and one zero-length note.
SynthTemplates ==
    {<<60, st, Sec, tr>> : st \in {0, 2 * Sec, 5 * Sec}, tr \in {0, 1}}
        \cup {<<60, 2 * Sec, 0, 0>>}

SynthNoteLists == NoteListsOver(SynthTemplates)

\* load() completes
SynthLoad ==
    /\ ~synth.loaded
    /\ synth' = [synth EXCEPT !.loaded = TRUE]
    /\ UNCHANGED <<notes, engine, lastCall>>

SynthScheduleNotes ==
    \E start \in {ctxTime - Sec \div 20, ctxTime},
       offset \in {0, Sec \div 100, 2 * Sec},
       rate \in {100, 200},
       muted \in {{}, {1}},
       failing \in {{}, {0}} :
        /\ DoSchedule(CallArgs(notes, start, offset, rate, muted, ctxTime, failing))
        /\ UNCHANGED notes

SynthSilence ==
    /\ synth' = Silence(synth)
    /\ UNCHANGED <<notes, engine, lastCall>>

SynthStopAll ==
    /\ synth' = StopAll(synth)
    /\ engine' = [id \in NoteIds |-> 0]
    /\ UNCHANGED <<notes, lastCall>>

SynthSpecInit ==
    /\ pool = NotePoolInit(0)
    /\ poolLog = NoPoolLog
    /\ renderer = RendererInit
    /\ keys = {}
    /\ frame = NoFrame
    /\ store = StoreInit
    /\ schedulerTimer = None
    /\ seekFrom = None
    /\ midiFile = NoMidi
    /\ parsed = NoParse
    /\ visibleCall = NoVisible
    /\ notes \in SynthNoteLists
    /\ synth = AudioSynthInit
    /\ engine = [id \in NoteIds |-> 0]
    /\ lastCall = NoCall
    /\ pm = PlaybackManagerInit
    /\ ctxState = "running"
    /\ ctxTime = 0
    /\ perfNow = 0
    /\ playPending = 0
    /\ lastOp = Op("new", None, None)
    /\ chain = None

SynthNext ==
    \/ SynthLoad /\ UNCHANGED <<clockVars, appVars, renderVars, parserVars>>
    \/ SynthScheduleNotes /\ UNCHANGED <<clockVars, appVars, renderVars, parserVars>>
    \/ SynthSilence /\ UNCHANGED <<clockVars, appVars, renderVars, parserVars>>
    \/ SynthStopAll /\ UNCHANGED <<clockVars, appVars, renderVars, parserVars>>

SpecSynth == SynthSpecInit /\ [][SynthNext]_vars

----------------------------------------------------------------------------
(* Claims about the scheduler, checked under SpecSynth *)

Range(f) == {f[k] : k \in DOMAIN f}

Occurrences(seq, x) == Cardinality({k \in 1 .. Len(seq) : seq[k] = x})

\* The brute-force reading of one call: the note lies in the window of call
\* c (start >= songOffset, projected time within now - 30 ms .. now + 4 s,
\* not yet ended) and the engine accepts it.
InWindow(note, c) ==
    /\ note.startTimeSec >= c.args.songOffset
    /\ ~PastWindow(note, c.args)
    /\ ~Stale(note, c.args)
    /\ note.endTimeSec > c.args.songOffset
    /\ note.id \notin c.args.failing

\* C1: with the engine loaded, however many scheduleNotes calls are made
\* between two stopAll() calls, the engine gets at most one trigger per id.
C1_NoDoubleTrigger ==
    \A id \in NoteIds : engine[id] <= 1

\* C1 witness: a call whose window holds an unmuted note that an earlier
\* call (no stopAll() since) had triggered; the note was not triggered again.
C1_Witness ==
    \E k \in 1 .. Len(notes) :
        /\ lastCall.loaded
        /\ notes[k].id \in lastCall.before
        /\ InWindow(notes[k], lastCall)
        /\ notes[k].trackId \notin lastCall.args.mutedTracks
        /\ notes[k].id \notin Range(lastCall.started)
        /\ engine[notes[k].id] = 1

\* C10: a scheduleNotes call triggers no note of a muted track, and triggers
\* exactly once every note of another track that lies in its window and is
\* not in the dedup set.
C10_MutedNeverOthersOnce ==
    \A k \in 1 .. Len(notes) :
        LET n == notes[k]
        IN  /\ n.trackId \in lastCall.args.mutedTracks
                => n.id \notin Range(lastCall.started)
            /\ ( /\ lastCall.loaded
                 /\ n.trackId \notin lastCall.args.mutedTracks
                 /\ InWindow(n, lastCall)
                 /\ n.id \notin lastCall.before )
                => Occurrences(lastCall.started, n.id) = 1

\* C10 witness (scenario B): two same-pitch notes that do not overlap, the
\* one on muted track 1 in the window and not triggered, the other triggered
\* once.
C10_Witness ==
    \E i, j \in 1 .. Len(notes) :
        /\ lastCall.loaded
        /\ lastCall.args.mutedTracks = {1}
        /\ notes[i].trackId = 1
        /\ notes[j].trackId = 0
        /\ notes[i].pitch = notes[j].pitch
        /\ notes[j].endTimeSec <= notes[i].startTimeSec
        /\ InWindow(notes[i], lastCall)
        /\ notes[i].id \notin lastCall.before
        /\ lastCall.started = <<notes[j].id>>
        /\ lastCall.count = 1

\* C15: silence() leaves the dedup set as it was, and no scheduleNotes call
\* triggers an id triggered since the last stopAll(); stopAll() empties the
\* set, and a scheduleNotes call made on the empty set with the arguments of
\* the call before it triggers again every id that call triggered.
C15_SilenceKeepsStopAllClears ==
    /\ [][SynthSilence => synth'.scheduledNotes = synth.scheduledNotes]_vars
    /\ [][SynthStopAll => synth'.scheduledNotes = {}]_vars
    /\ [][~(/\ \E id \in NoteIds :
                  engine[id] >= 1 /\ id \in Range(lastCall'.started)
             /\ SynthScheduleNotes)]_vars
    /\ [][(/\ synth.loaded /\ lastCall.loaded
           /\ synth.scheduledNotes = {}
           /\ lastCall'.args = lastCall.args
           /\ ~(Range(lastCall.started) \subseteq Range(lastCall'.started)))
             => ~SynthScheduleNotes]_vars

\* silence() has just run on a synth whose last call triggered a note: the
\* gain is down and the note is still recorded.
C15_Witness ==
    /\ synth.loaded
    /\ synth.muted
    /\ lastCall.started # << >>
    /\ Range(lastCall.started) \subseteq synth.scheduledNotes
    /\ \E id \in synth.scheduledNotes : engine[id] = 1

\* The notes of the list that a loaded engine accepting every start() is to
\* be handed by call c, found without search or early exit: start >=
\* songOffset, projected time within now - 30 ms .. now + 4 s, end >
\* songOffset, track not muted, id not in the dedup set.
ScheduleBruteForce(ns, c) ==
    {ns[k].id : k \in
        {j \in 1 .. Len(ns) :
            /\ ns[j].startTimeSec >= c.args.songOffset
            /\ (ns[j].startTimeSec - c.args.songOffset) * 100
                  <= (c.args.now + Lookahead - c.args.songStartCtxTime)
                         * c.args.playbackRate
            /\ (ns[j].startTimeSec - c.args.songOffset) * 100
                  >= (c.args.now - StaleTolerance - c.args.songStartCtxTime)
                         * c.args.playbackRate
            /\ ns[j].endTimeSec > c.args.songOffset
            /\ ns[j].trackId \notin c.args.mutedTracks
            /\ ns[j].id \notin c.before}}

\* C20: for a loaded synth whose engine accepts every start(), the set of
\* notes one scheduleNotes call triggers over the sorted list, at a rate
\* above 0, equals the brute-force set of the notes with start >= songOffset,
\* projected time <= now + 4 s and >= now - 30 ms, end > songOffset, track
\* not muted and id not in the dedup set.
C20_TriggeredEqualsBruteForce ==
    (lastCall.loaded /\ lastCall.args.failing = {})
        => Range(lastCall.started) = ScheduleBruteForce(notes, lastCall)

\* A call from song offset 0 that triggered the first note and stopped its
\* scan at the second, whose projected time lies beyond the window.
C20_Witness ==
    /\ lastCall.loaded
    /\ lastCall.args.failing = {}
    /\ lastCall.before = {}
    /\ Len(notes) = 2
    /\ lastCall.started = <<notes[1].id>>
    /\ notes[2].trackId \notin lastCall.args.mutedTracks
    /\ (notes[2].startTimeSec - lastCall.args.songOffset) * 100
          > (lastCall.args.now + Lookahead - lastCall.args.songStartCtxTime)
                * lastCall.args.playbackRate

\* The attack of the note, projected by call c, lies more than 30 ms before
\* the engine's current time.
AttackLate(note, c) ==
    (note.startTimeSec - c.args.songOffset) * 100
        < (c.args.now - StaleTolerance - c.args.songStartCtxTime)
              * c.args.playbackRate

\* The call reached the note and nothing but the engine could keep it from
\* being triggered: it lies in the window, its track is not muted and its id
\* is not in the dedup set.
Attempted(note, c) ==
    /\ note.startTimeSec >= c.args.songOffset
    /\ (note.startTimeSec - c.args.songOffset) * 100
          <= (c.args.now + Lookahead - c.args.songStartCtxTime)
                 * c.args.playbackRate
    /\ ~AttackLate(note, c)
    /\ note.endTimeSec > c.args.songOffset
    /\ note.trackId \notin c.args.mutedTracks
    /\ note.id \notin c.before

\* C21: a scheduleNotes call triggers no note whose projected time is more
\* than 30 ms before the engine's current time, not even once; the notes
\* behind such a note in the list that the call is to trigger are triggered
\* all the same.
C21_StaleSkippedAlone ==
    lastCall.loaded =>
        \A k \in 1 .. Len(notes) :
            /\ AttackLate(notes[k], lastCall)
                  => Occurrences(lastCall.started, notes[k].id) = 0
            /\ \A j \in 1 .. k - 1 :
                  (/\ AttackLate(notes[j], lastCall)
                   /\ Attempted(notes[k], lastCall)
                   /\ notes[k].id \notin lastCall.args.failing)
                      => Occurrences(lastCall.started, notes[k].id) = 1

\* A call projected 50 ms late from song offset 0: the note at 0 s, unmuted
\* and never triggered before, was skipped, and the note behind it was
\* triggered.
C21_Witness ==
    /\ lastCall.loaded
    /\ Len(notes) = 2
    /\ notes[1].startTimeSec >= lastCall.args.songOffset
    /\ notes[1].endTimeSec > lastCall.args.songOffset
    /\ AttackLate(notes[1], lastCall)
    /\ notes[1].trackId \notin lastCall.args.mutedTracks
    /\ notes[1].id \notin lastCall.before
    /\ notes[1].id \notin lastCall.args.failing
    /\ lastCall.started = <<notes[2].id>>

\* C22: when start() throws on a note the call attempted, the call still
\* returns its count, the note is neither counted nor recorded, and every
\* later note of the list that the call is to trigger is triggered once.
C22_ThrowDoesNotAbort ==
    lastCall.loaded =>
        /\ lastCall.count = Len(lastCall.started)
        /\ \A j \in 1 .. Len(notes) :
              (Attempted(notes[j], lastCall) /\ notes[j].id \in lastCall.args.failing)
                  => /\ notes[j].id \notin Range(lastCall.started)
                     /\ \A k \in j + 1 .. Len(notes) :
                           (/\ Attempted(notes[k], lastCall)
                            /\ notes[k].id \notin lastCall.args.failing)
                               => Occurrences(lastCall.started, notes[k].id) = 1

\* start() threw on the first note, which the call had reached, and the
\* second note was triggered and counted.
C22_Witness ==
    /\ lastCall.loaded
    /\ Len(notes) = 2
    /\ Attempted(notes[1], lastCall)
    /\ notes[1].id \in lastCall.args.failing
    /\ notes[1].id \notin synth.scheduledNotes
    /\ lastCall.started = <<notes[2].id>>
    /\ lastCall.count = 1

\* C36: scheduleNotes never triggers a note whose startTimeSec is earlier
\* than songOffset: a note already sounding at the position playback is
\* resumed at or sought to (start < songOffset < end) is not attacked again.
C36_NoAttackBeforeOffset ==
    lastCall.loaded =>
        \A k \in 1 .. Len(notes) :
            notes[k].startTimeSec < lastCall.args.songOffset
                => notes[k].id \notin Range(lastCall.started)

\* A call from song offset 10 ms, on time: the first note, started at 0 and
\* sounding until 1 s, unmuted, never triggered before and not throwing, was
\* left alone, and the note behind it was triggered.
C36_Witness ==
    /\ lastCall.loaded
    /\ Len(notes) = 2
    /\ notes[1].startTimeSec < lastCall.args.songOffset
    /\ notes[1].endTimeSec > lastCall.args.songOffset
    /\ ~AttackLate(notes[1], lastCall)
    /\ notes[1].trackId \notin lastCall.args.mutedTracks
    /\ notes[1].id \notin lastCall.before
    /\ notes[1].id \notin lastCall.args.failing
    /\ lastCall.started = <<notes[2].id>>

RECURSIVE EngineTotal(_, _)
\* The successful start() calls the engine has counted for ids 0 .. n.
EngineTotal(e, n) == IF n < 0 THEN 0 ELSE e[n] + EngineTotal(e, n - 1)

\* What C37 says of one scheduleNotes call, read off the step it makes.
CountMatches ==
    /\ lastCall'.count
          = EngineTotal(engine', MaxNotes) - EngineTotal(engine, MaxNotes)
    /\ lastCall'.count
          = Cardinality(synth'.scheduledNotes \ synth.scheduledNotes)
    /\ synth.scheduledNotes \subseteq synth'.scheduledNotes
    /\ \A id \in lastCall'.args.failing :
          id \in synth'.scheduledNotes => id \in synth.scheduledNotes
    /\ ~synth.loaded =>
          /\ lastCall'.count = 0
          /\ engine' = engine
          /\ synth'.scheduledNotes = synth.scheduledNotes

\* C37: the count a scheduleNotes call returns equals the number of engine
\* triggers that succeeded in the call and the number of ids the call added
\* to the dedup set; a note whose trigger threw is not recorded; a call made
\* while the engine is not loaded returns 0, triggers nothing and leaves the
\* dedup set unchanged.
C37_CountIsTriggersIsRecorded ==
    [][~CountMatches => ~SynthScheduleNotes]_vars

\* A loaded call that reached two fresh notes: start() threw on the first,
\* the second was triggered; the call returned 1 and recorded only the
\* second.
C37_Witness ==
    /\ lastCall.loaded
    /\ Len(notes) = 2
    /\ Attempted(notes[1], lastCall)
    /\ notes[1].id \in lastCall.args.failing
    /\ lastCall.count = 1
    /\ lastCall.started = <<notes[2].id>>
    /\ synth.scheduledNotes = lastCall.before \cup {notes[2].id}
    /\ engine[notes[2].id] = 1
    /\ engine[notes[1].id] = 0


\* Song positions handleTimeChange is tried with, and the loaded songs.
AppSeekTargets == {0, 2 * Sec}
AppTemplates == {<<60, Sec, Sec, 0>>, <<60, 3 * Sec, Sec, 1>>}
AppTempos == {100, 200}
AppClockSteps == {Sec \div 2}
AppNoteLists == NoteListsOver(AppTemplates)

----------------------------------------------------------------------------
(* AppLayout: the transport handlers and the scheduler effect *)

\* clearScheduled(), called by handlePlayPause: "Clear dedup so notes
\* re-schedule from current position"
ClearScheduled(s) == [s EXCEPT !.scheduledNotes = {}]

\* scheduleChunk's mutedTracks
MutedTracks(st) ==
    (IF ~st.rightHandActive /\ st.trackCount > 0 THEN {0} ELSE {})
        \cup (IF ~st.leftHandActive /\ st.trackCount > 1 THEN {1} ELSE {})

\* scheduleChunk() that does not look at pm.isPlaying
ScheduleChunkUnguarded(p, s, st, ns, now) ==
    IF ~s.loaded
    THEN [pm |-> p, synth |-> s, ran |-> FALSE, started |-> << >>, call |-> NoCall]
    ELSE LET t == GetTime(p, now)
             a == CallArgs(ns, now, t.ret, st.tempo, MutedTracks(st), now, {})
             r == ScheduleNotes(s, a)
         IN  [pm      |-> t.pm,
              synth   |-> r.synth,
              ran     |-> TRUE,
              started |-> r.started,
              call    |-> [ args    |-> [a EXCEPT !.notes = << >>],
                            loaded  |-> s.loaded,
                            before  |-> s.scheduledNotes,
                            started |-> r.started,
                            count   |-> r.count ]]

\* scheduleChunk() run with clock fields p, synth fields s and store st:
\* the fields afterwards and, when scheduleNotes was called, the call.
ScheduleChunk(p, s, st, ns, now) ==
    IF ~s.loaded \/ ~p.isPlaying
    THEN [pm |-> p, synth |-> s, ran |-> FALSE, started |-> << >>, call |-> NoCall]
    ELSE LET t == GetTime(p, now)
             a == CallArgs(ns, now, t.ret, st.tempo, MutedTracks(st), now, {})
             r == ScheduleNotes(s, a)
         IN  [pm      |-> t.pm,
              synth   |-> r.synth,
              ran     |-> TRUE,
              started |-> r.started,
              call    |-> [ args    |-> [a EXCEPT !.notes = << >>],
                            loaded  |-> s.loaded,
                            before  |-> s.scheduledNotes,
                            started |-> r.started,
                            count   |-> r.count ]]

\* The state left by a scheduleChunk result c, the engine having been e.
Commit(c, e) ==
    /\ pm' = c.pm
    /\ synth' = c.synth
    /\ engine' = EngineStarted(e, c.started)
    /\ lastCall' = IF c.ran THEN c.call ELSE lastCall

NoStarts == [id \in NoteIds |-> 0]

\* setInterval(scheduleChunk, 1500)
SchedulerInterval == (3 * Sec) \div 2

\* What a seek handler leaves in seekFrom: the position sought, when the
\* seek was made during playback.
SeekMark(st, p) ==
    IF st.isPlaying /\ p.isPlaying THEN p.songPosition ELSE None

\* The display loop's callback: reads getTime() and, when the clock has
\* stopped at the end of the song, setPlaying(false); the scheduler effect's
\* cleanup then clears the interval.
DisplayTick ==
    /\ store.isPlaying
    /\ pm' = GetTime(Enter(pm), ctxTime).pm
    /\ store' = [store EXCEPT !.isPlaying = pm'.isPlaying]
    /\ schedulerTimer' = IF pm'.isPlaying THEN schedulerTimer ELSE None
    /\ lastOp' = Op("displayTick", None, None)
    /\ UNCHANGED <<ctxState, ctxTime, perfNow, playPending, chain, seekFrom>>
    /\ UNCHANGED synthVars

\* The hardware clocks advance, but not past a due scheduler interval.
AppAdvance ==
    /\ schedulerTimer # None => perfNow < schedulerTimer
    /\ AdvanceBy(AppClockSteps)

\* handlePlayPause.  Playing: pause, silence, setPlaying(false), and the
\* scheduler effect's cleanup clears the interval.  Not playing (the synth
\* exists and the AudioContext runs, so the awaits resolve at once):
\* setPlaybackRate, clearScheduled, play, setPlaying(true), and the scheduler
\* effect runs scheduleChunk and arms the interval.
HandlePlayPause ==
    IF store.isPlaying
    THEN /\ pm' = PauseBody(Enter(pm), ctxTime)
         /\ synth' = Silence(synth)
         /\ store' = [store EXCEPT !.isPlaying = FALSE]
         /\ schedulerTimer' = None
         /\ seekFrom' = None
         /\ lastOp' = Op("handlePlayPause", None, None)
         /\ UNCHANGED <<ctxState, ctxTime, perfNow, playPending, chain,
                        notes, engine, lastCall>>
    ELSE LET p1 == SetPlaybackRateBody(Enter(pm), store.tempo, ctxTime, perfNow)
             s1 == ClearScheduled(synth)
             p2 == IF PlayGuard(p1) THEN p1 ELSE PlayBody(p1, ctxTime, perfNow)
             st == [store EXCEPT !.isPlaying = TRUE]
         IN  /\ Commit(ScheduleChunk(p2, s1, st, notes, ctxTime), engine)
             /\ store' = st
             /\ schedulerTimer' = perfNow + SchedulerInterval
             /\ seekFrom' = None
             /\ lastOp' = Op("handlePlayPause", None, None)
             /\ UNCHANGED <<ctxState, ctxTime, perfNow, playPending, chain, notes>>

\* the setInterval(scheduleChunk, 1500) callback
SchedulerTick ==
    /\ schedulerTimer # None
    /\ perfNow >= schedulerTimer
    /\ Commit(ScheduleChunk(Enter(pm), synth, store, notes, ctxTime), engine)
    /\ schedulerTimer' = schedulerTimer + SchedulerInterval
    /\ lastOp' = Op("scheduleChunk", None, None)
    /\ UNCHANGED <<ctxState, ctxTime, perfNow, playPending, chain, notes,
                   store, seekFrom>>

\* handleStop
HandleStop ==
    /\ pm' = StopBody(Enter(pm), ctxTime)
    /\ synth' = StopAll(synth)
    /\ engine' = NoStarts
    /\ store' = [store EXCEPT !.isPlaying = FALSE]
    /\ schedulerTimer' = None
    /\ seekFrom' = None
    /\ lastOp' = Op("handleStop", None, None)
    /\ UNCHANGED <<ctxState, ctxTime, perfNow, playPending, chain, notes, lastCall>>

\* handleStepBackward: stopAll, seek(max(0, getTime() - 5)), getTime()
HandleStepBackward ==
    LET t == GetTime(Enter(pm), ctxTime)
        p1 == SeekBody(t.pm, Max(0, t.ret - 5 * Sec), ctxTime, perfNow)
    IN  /\ pm' = GetTime(p1, ctxTime).pm
        /\ synth' = StopAll(synth)
        /\ engine' = NoStarts
        /\ seekFrom' = SeekMark(store, pm')
        /\ lastOp' = Op("handleStepBackward", None, None)
        /\ UNCHANGED <<ctxState, ctxTime, perfNow, playPending, chain, notes,
                       lastCall, store, schedulerTimer>>

\* handleTimeChange(time)
HandleTimeChange ==
    \E time \in AppSeekTargets :
        /\ pm' = SeekBody(Enter(pm), time, ctxTime, perfNow)
        /\ synth' = StopAll(synth)
        /\ engine' = NoStarts
        /\ seekFrom' = SeekMark(store, pm')
        /\ lastOp' = Op("handleTimeChange", time, None)
        /\ UNCHANGED <<ctxState, ctxTime, perfNow, playPending, chain, notes,
                       lastCall, store, schedulerTimer>>

\* handleTempoChange(newTempo): setTempo, setPlaybackRate; a changed tempo
\* re-runs the scheduler effect, which while playing runs scheduleChunk and
\* re-arms the interval.
HandleTempoChange ==
    \E newTempo \in AppTempos :
        LET p1 == SetPlaybackRateBody(Enter(pm), newTempo, ctxTime, perfNow)
            st == [store EXCEPT !.tempo = newTempo]
        IN  /\ IF store.isPlaying /\ newTempo # store.tempo
               THEN /\ Commit(ScheduleChunk(p1, synth, st, notes, ctxTime), engine)
                    /\ schedulerTimer' = perfNow + SchedulerInterval
               ELSE /\ pm' = p1
                    /\ UNCHANGED <<synth, engine, lastCall, schedulerTimer>>
            /\ store' = st
            /\ seekFrom' = None
            /\ lastOp' = Op("handleTempoChange", newTempo, None)
            /\ UNCHANGED <<ctxState, ctxTime, perfNow, playPending, chain, notes>>

\* The state after handleFileSelect has loaded a song and the soundfont:
\* duration set, position 0, AudioContext running, synth loaded.
AppInit ==
    /\ pool = NotePoolInit(0)
    /\ poolLog = NoPoolLog
    /\ renderer = RendererInit
    /\ keys = {}
    /\ frame = NoFrame
    /\ notes \in AppNoteLists
    /\ pm = [PlaybackManagerInit EXCEPT !.audioContext = TRUE,
                                        !.duration = DurationOf(notes)]
    /\ ctxState = "running"
    /\ ctxTime = 0
    /\ perfNow = 0
    /\ playPending = 0
    /\ lastOp = Op("handleFileSelect", None, None)
    /\ chain = None
    /\ synth = [AudioSynthInit EXCEPT !.loaded = TRUE]
    /\ engine = NoStarts
    /\ lastCall = NoCall
    /\ store = StoreInit
    /\ schedulerTimer = None
    /\ seekFrom = None
    /\ midiFile = NoMidi
    /\ parsed = NoParse
    /\ visibleCall = NoVisible

AppNext ==
    \/ AppAdvance /\ UNCHANGED <<synthVars, appVars, renderVars, parserVars>>
    \/ DisplayTick /\ UNCHANGED <<renderVars, parserVars>>
    \/ HandlePlayPause /\ UNCHANGED <<renderVars, parserVars>>
    \/ SchedulerTick /\ UNCHANGED <<renderVars, parserVars>>
    \/ HandleStop /\ UNCHANGED <<renderVars, parserVars>>
    \/ HandleStepBackward /\ UNCHANGED <<renderVars, parserVars>>
    \/ HandleTimeChange /\ UNCHANGED <<renderVars, parserVars>>
    \/ HandleTempoChange /\ UNCHANGED <<renderVars, parserVars>>

SpecApp == AppInit /\ [][AppNext]_vars

\* Play, pause and seeks, with no transport action after a seek made during
\* playback: the interval, the display loop and the hardware clocks run on,
\* and the interval and the clocks are not held up for ever.
AppTickStep == SchedulerTick /\ UNCHANGED <<renderVars, parserVars>>
AppClockStep == AppAdvance /\ UNCHANGED <<synthVars, appVars, renderVars, parserVars>>

AppLiveNext ==
    \/ AppClockStep
    \/ AppTickStep
    \/ DisplayTick /\ UNCHANGED <<renderVars, parserVars>>
    \/ seekFrom = None /\ HandlePlayPause /\ UNCHANGED <<renderVars, parserVars>>
    \/ seekFrom = None /\ HandleStepBackward /\ UNCHANGED <<renderVars, parserVars>>
    \/ seekFrom = None /\ HandleTimeChange /\ UNCHANGED <<renderVars, parserVars>>

\* setInterval's timer has come due: what enables AppTickStep, which always
\* moves schedulerTimer on.
TickDue == schedulerTimer # None /\ perfNow >= schedulerTimer

\* WF_vars(AppTickStep) with ENABLED <<AppTickStep>>_vars written as TickDue:
\* a due callback of the interval is run.
TickFair == []<>(~TickDue) \/ []<><<AppTickStep>>_vars

SpecAppLive ==
    /\ AppInit
    /\ [][AppLiveNext]_vars
    /\ TickFair
    /\ WF_vars(AppClockStep)

----------------------------------------------------------------------------
(* The handlers with the display loop firing fairly *)

AppDisplayStep == DisplayTick /\ UNCHANGED <<renderVars, parserVars>>

\* requestAnimationFrame keeps calling the display loop's tick while the
\* store's isPlaying is true.
SpecAppEnd == AppInit /\ [][AppNext]_vars /\ WF_vars(AppDisplayStep)

\* The clock has stopped by itself (or was never started) while the store
\* still says playing, and the store after the display loop has caught up.
StoppedUnseen == store.isPlaying /\ ~pm.isPlaying
StoreSynced == ~store.isPlaying /\ schedulerTimer = None

\* C39 as stated: if the clock stops by itself at the end of the song while
\* the store's isPlaying is true, the store's isPlaying eventually becomes
\* false and the scheduler interval is cancelled; and no scheduleNotes call
\* is made while the clock is not playing.
C39_EndOfSongSyncs ==
    /\ StoppedUnseen ~> StoreSynced
    /\ [][lastCall' # lastCall => pm'.isPlaying]_vars

\* C39, amended: the store is synced and the interval cancelled as stated;
\* a scheduleNotes call is made only by a scheduleChunk that found the clock
\* playing, and when that scheduleChunk's own getTime() read has stopped
\* the clock at the end of the song, the call is made with songOffset =
\* duration and triggers nothing.
C39_EndOfSongSyncsNoTrigger ==
    /\ StoppedUnseen ~> StoreSynced
    /\ [][lastCall' # lastCall
            => \/ pm'.isPlaying
               \/ /\ pm'.ended
                  /\ lastCall'.args.songOffset = pm'.duration
                  /\ lastCall'.started = << >>]_vars

\* C39 witness: the song has run to its end and the display loop's tick
\* has set the store's isPlaying to false and cancelled the interval.
C39_Witness ==
    /\ lastOp.op = "displayTick"
    /\ StoreSynced
    /\ pm.ended
    /\ pm.duration > 0
    /\ pm.songPosition = pm.duration
    /\ pm.playStartedAtCtx < ctxTime

----------------------------------------------------------------------------
(* One playback from the play handler to the end of the song *)

\* Wall-clock time followed during a playback, and the hardware time that
\* may pass between play()'s anchor and the scheduler effect's first
\* scheduleChunk (the effect runs in a later task than the handler).
PlayHorizon == 2 * MaxTime * Sec
EffectDelays == {(3 * Sec) \div 1000}
PlaySeekTargets == {0, 2 * Sec}
PlayTemplates == {<<60, st, Sec, 0>> : st \in {0, 2 * Sec, 5 * Sec}}
PlayTempos == {50, 200}
PlayNoteLists == NoteListsOver(PlayTemplates)

\* The scheduler effect has not yet run for the current playback.
EffectPending == store.isPlaying /\ schedulerTimer = None

\* One playback is followed, started at hardware time 0: the clocks have
\* not moved and no scheduleNotes call has been made yet.
FirstPlayback == perfNow = 0 /\ lastCall = NoCall

\* handlePlayPause's play branch up to setPlaying(true)
HandlePlay ==
    /\ ~store.isPlaying
    /\ FirstPlayback
    /\ LET p1 == SetPlaybackRateBody(Enter(pm), store.tempo, ctxTime, perfNow)
       IN  pm' = IF PlayGuard(p1) THEN p1 ELSE PlayBody(p1, ctxTime, perfNow)
    /\ synth' = ClearScheduled(synth)
    /\ store' = [store EXCEPT !.isPlaying = TRUE]
    /\ schedulerTimer' = None
    /\ seekFrom' = None
    /\ lastOp' = Op("handlePlayPause", None, None)
    /\ UNCHANGED <<ctxState, ctxTime, perfNow, playPending, chain, notes,
                   engine, lastCall>>

\* The hardware clocks move on before the effect runs.
EffectDelay ==
    /\ EffectPending
    /\ lastOp.op = "handlePlayPause"
    /\ \E d \in EffectDelays :
          /\ perfNow' = perfNow + d
          /\ ctxTime' = ctxTime + d
    /\ lastOp' = Op("effectDelay", None, None)
    /\ UNCHANGED <<pm, ctxState, playPending, chain>>

\* The scheduler effect's body after isPlaying became true: scheduleChunk()
\* and setInterval(scheduleChunk, 1500)
SchedulerEffect ==
    /\ EffectPending
    /\ Commit(ScheduleChunk(Enter(pm), synth, store, notes, ctxTime), engine)
    /\ schedulerTimer' = perfNow + SchedulerInterval
    /\ lastOp' = Op("schedulerEffect", None, None)
    /\ UNCHANGED <<ctxState, ctxTime, perfNow, playPending, chain, notes,
                   store, seekFrom>>

\* The hardware clocks advance during the playback, but not past a due
\* scheduler interval and not while the effect is pending.
PlayAdvance ==
    /\ store.isPlaying
    /\ ~EffectPending
    /\ schedulerTimer # None => perfNow < schedulerTimer
    /\ perfNow < PlayHorizon
    /\ \E d \in AppClockSteps :
          /\ perfNow' = perfNow + d
          /\ ctxTime' = ctxTime + d
    /\ lastOp' = Op("advance", None, None)
    /\ UNCHANGED <<pm, ctxState, playPending, chain>>

PlayInit ==
    /\ pool = NotePoolInit(0)
    /\ poolLog = NoPoolLog
    /\ renderer = RendererInit
    /\ keys = {}
    /\ frame = NoFrame
    /\ notes \in PlayNoteLists
    /\ pm = [PlaybackManagerInit EXCEPT !.audioContext = TRUE,
                                        !.duration = DurationOf(notes)]
    /\ ctxState = "running"
    /\ ctxTime = 0
    /\ perfNow = 0
    /\ playPending = 0
    /\ lastOp = Op("handleFileSelect", None, None)
    /\ chain = None
    /\ synth = [AudioSynthInit EXCEPT !.loaded = TRUE]
    /\ engine = NoStarts
    /\ lastCall = NoCall
    /\ store = StoreInit
    /\ schedulerTimer = None
    /\ seekFrom = None
    /\ midiFile = NoMidi
    /\ parsed = NoParse
    /\ visibleCall = NoVisible

\* handleTimeChange and handleTempoChange before the playback starts
PlaySeekBefore ==
    /\ ~store.isPlaying
    /\ FirstPlayback
    /\ \E time \in PlaySeekTargets :
          /\ pm' = SeekBody(Enter(pm), time, ctxTime, perfNow)
          /\ lastOp' = Op("handleTimeChange", time, None)
    /\ synth' = StopAll(synth)
    /\ engine' = NoStarts
    /\ seekFrom' = None
    /\ UNCHANGED <<ctxState, ctxTime, perfNow, playPending, chain, notes,
                   lastCall, store, schedulerTimer>>

PlayTempoBefore ==
    /\ ~store.isPlaying
    /\ FirstPlayback
    /\ \E newTempo \in PlayTempos :
          /\ pm' = SetPlaybackRateBody(Enter(pm), newTempo, ctxTime, perfNow)
          /\ store' = [store EXCEPT !.tempo = newTempo]
          /\ lastOp' = Op("handleTempoChange", newTempo, None)
    /\ UNCHANGED <<ctxState, ctxTime, perfNow, playPending, chain, notes,
                   synth, engine, lastCall, schedulerTimer, seekFrom>>

PlayNext ==
    \/ PlaySeekBefore /\ UNCHANGED <<renderVars, parserVars>>
    \/ PlayTempoBefore /\ UNCHANGED <<renderVars, parserVars>>
    \/ HandlePlay /\ UNCHANGED <<renderVars, parserVars>>
    \/ EffectDelay /\ UNCHANGED <<synthVars, appVars, renderVars, parserVars>>
    \/ SchedulerEffect /\ UNCHANGED <<renderVars, parserVars>>
    \/ PlayAdvance /\ UNCHANGED <<synthVars, appVars, renderVars, parserVars>>
    \/ SchedulerTick /\ UNCHANGED <<renderVars, parserVars>>
    \/ DisplayTick /\ UNCHANGED <<renderVars, parserVars>>

SpecPlay == PlayInit /\ [][PlayNext]_vars

\* Note k starts at or after the position the running playback started at
\* and the song has reached it.
ReachedInPlayback(k) ==
    /\ notes[k].startTimeSec >= pm.songPosition
    /\ notes[k].startTimeSec <= GetTimeNoClamp(pm, ctxTime).ret
    /\ notes[k].trackId \notin MutedTracks(store)

\* C34: during uninterrupted playback started by the play handler at
\* position p, once the scheduler effect has run, every unmuted note with
\* start >= p that the song has reached has been triggered, and exactly
\* once, a note starting exactly at p included.
C34_NoSchedulingGap ==
    (store.isPlaying /\ pm.isPlaying /\ schedulerTimer # None) =>
        \A k \in 1 .. Len(notes) :
            /\ ReachedInPlayback(k) => engine[notes[k].id] = 1
            /\ engine[notes[k].id] <= 1

----------------------------------------------------------------------------
(* Songs loaded one after another *)

\* handleFileSelect from parseMidiFile on (the synth exists): the new list
\* replaces the old one, ids again from n-0; duration set, seek(0),
\* loadNotes.  A changed parsedMidi re-runs the scheduler effect, which
\* while playing runs scheduleChunk and re-arms the interval.
HandleFileSelect ==
    \E ns \in AppNoteLists :
        LET p1 == SeekBody([Enter(pm) EXCEPT !.duration = DurationOf(ns)],
                           0, ctxTime, perfNow)
        IN  /\ notes' = ns
            /\ renderer' = LoadNotes(renderer, ns)
            /\ IF store.isPlaying /\ ns # notes
               THEN /\ Commit(ScheduleChunk(p1, synth, store, ns, ctxTime), engine)
                    /\ schedulerTimer' = perfNow + SchedulerInterval
               ELSE /\ pm' = p1
                    /\ UNCHANGED <<synth, engine, lastCall, schedulerTimer>>
            /\ seekFrom' = None
            /\ lastOp' = Op("handleFileSelect", None, None)
            /\ UNCHANGED <<ctxState, ctxTime, perfNow, playPending, chain,
                           store, pool, poolLog, keys, frame>>

LoadInit ==
    /\ pool = NotePoolInit(0)
    /\ poolLog = NoPoolLog
    /\ notes \in AppNoteLists
    /\ renderer = LoadNotes(RendererInit, notes)
    /\ keys = {}
    /\ frame = NoFrame
    /\ pm = [PlaybackManagerInit EXCEPT !.audioContext = TRUE,
                                        !.duration = DurationOf(notes)]
    /\ ctxState = "running"
    /\ ctxTime = 0
    /\ perfNow = 0
    /\ playPending = 0
    /\ lastOp = Op("handleFileSelect", None, None)
    /\ chain = None
    /\ synth = [AudioSynthInit EXCEPT !.loaded = TRUE]
    /\ engine = NoStarts
    /\ lastCall = NoCall
    /\ store = StoreInit
    /\ schedulerTimer = None
    /\ seekFrom = None
    /\ midiFile = NoMidi
    /\ parsed = NoParse
    /\ visibleCall = NoVisible

LoadNext ==
    \/ AppAdvance /\ UNCHANGED <<synthVars, appVars, renderVars, parserVars>>
    \/ DisplayTick /\ UNCHANGED <<renderVars, parserVars>>
    \/ HandlePlayPause /\ UNCHANGED <<renderVars, parserVars>>
    \/ SchedulerTick /\ UNCHANGED <<renderVars, parserVars>>
    \/ HandleStop /\ UNCHANGED <<renderVars, parserVars>>
    \/ HandleFileSelect /\ UNCHANGED parserVars

SpecLoad == LoadInit /\ [][LoadNext]_vars

\* C35: after a new song is loaded, no id recorded in the dedup set for the
\* previous song suppresses a note of the new song: when handleFileSelect
\* has replaced the list, no id of a new note is in the dedup set from
\* before the load.
C35_NewSongNotSuppressed ==
    [][(lastOp'.op = "handleFileSelect" /\ notes' # notes)
          => \A k \in 1 .. Len(notes') :
                notes'[k].id \notin synth.scheduledNotes
                                      \cap synth'.scheduledNotes]_vars

----------------------------------------------------------------------------
(* Claims about the handlers, checked under SpecApp *)

\* C2: across pause and resume (handlePlayPause) and scheduler ticks, with no
\* stop or seek in between, no id is triggered a second time: a start() never
\* goes to an id that was started since the last stop or seek.
C2_NoRetriggerAcrossPause ==
    [][\A id \in NoteIds : engine'[id] > engine[id] => engine[id] = 0]_vars

\* C16: every seek, stop and tempo change made through the transport handlers
\* re-arms the scheduler: no id that was recorded as triggered before the
\* handler ran is still recorded when it has returned.
C16_HandlersRearm ==
    [][(\/ lastOp'.op \in {"handleStop", "handleStepBackward", "handleTimeChange"}
        \/ lastOp'.op = "handleTempoChange" /\ lastOp'.arg # store.tempo)
          => synth.scheduledNotes \cap synth'.scheduledNotes = {}]_vars

\* The clocks have reached the end of the time followed and note k has not
\* yet come up: a later interval may still trigger it.
StillAhead(k) ==
    /\ perfNow >= MaxTime * Sec
    /\ notes[k].startTimeSec >= GetTime(pm, ctxTime).ret

\* C17: after a seek to position p made during playback, with no transport
\* action after it and the scheduler interval firing, every note of an
\* unmuted track that starts at or after p is eventually triggered.
C17_SeekThenTriggered ==
    \A k \in 1 .. MaxNotes :
        (/\ seekFrom # None
         /\ k <= Len(notes)
         /\ notes[k].startTimeSec >= seekFrom
         /\ notes[k].trackId \notin MutedTracks(store))
            ~> (/\ k <= Len(notes)
                /\ (engine[notes[k].id] >= 1 \/ StillAhead(k)))

----------------------------------------------------------------------------
(* The pool called directly *)

PoolAcquire ==
    LET a == Acquire(pool)
    IN  /\ pool' = a.pool
        /\ poolLog' = LogAcquire(poolLog, pool, a.ret)
        /\ UNCHANGED <<renderer, keys, frame>>

PoolReleaseAll ==
    /\ pool' = ReleaseAll(pool)
    /\ poolLog' = LogReleaseAll(poolLog, pool)
    /\ UNCHANGED <<renderer, keys, frame>>

PoolInit ==
    /\ \E size \in 0 .. MaxPoolSize : pool = NotePoolInit(size)
    /\ poolLog = NoPoolLog
    /\ renderer = RendererInit
    /\ keys = {}
    /\ frame = NoFrame
    /\ store = StoreInit
    /\ schedulerTimer = None
    /\ seekFrom = None
    /\ midiFile = NoMidi
    /\ parsed = NoParse
    /\ visibleCall = NoVisible
    /\ notes = << >>
    /\ synth = AudioSynthInit
    /\ engine = [id \in NoteIds |-> 0]
    /\ lastCall = NoCall
    /\ pm = PlaybackManagerInit
    /\ ctxState = "none"
    /\ ctxTime = 0
    /\ perfNow = 0
    /\ playPending = 0
    /\ lastOp = Op("new", None, None)
    /\ chain = None

PoolNext ==
    \/ PoolAcquire /\ UNCHANGED <<clockVars, synthVars, appVars, parserVars>>
    \/ PoolReleaseAll /\ UNCHANGED <<clockVars, synthVars, appVars, parserVars>>

SpecPool == PoolInit /\ [][PoolNext]_vars

----------------------------------------------------------------------------
(* Claims about the pool, checked under SpecPool *)

\* C9: the active count stays within 0 .. capacity; acquire() returns none
\* when it finds the active count at capacity; releaseAll() leaves the active
\* count at 0; and the k-th acquire() of a round returns the slot the k-th
\* acquire() of the round before returned.
C9_PoolWithinCapacity ==
    /\ 0 <= pool.activeCount /\ pool.activeCount <= pool.poolSize
    /\ (poolLog.op = "acquire" /\ poolLog.before = pool.poolSize)
           => poolLog.ret = None
    /\ poolLog.op = "releaseAll" => pool.activeCount = 0
    /\ \A k \in 1 .. Min(Len(poolLog.round), Len(poolLog.prev)) :
           poolLog.round[k] = poolLog.prev[k]

\* A second round has handed out two slots again and then hit capacity.
C9_Witness ==
    /\ poolLog.op = "acquire"
    /\ poolLog.ret = None
    /\ Len(poolLog.prev) >= 2
    /\ Len(poolLog.round) >= 2
    /\ pool.activeCount = pool.poolSize

----------------------------------------------------------------------------
(* The renderer driven frame by frame *)

\* A one-second middle C, a later one-second D on the left hand, a C held
\* for twelve seconds, and a pitch below the keyboard.
RenderTemplates ==
    {<<60, 0, Sec, 0>>, <<62, 2 * Sec, Sec, 1>>, <<60, 0, 12 * Sec, 0>>,
     <<20, 0, Sec, 0>>}

RenderNoteLists == NoteListsOver(RenderTemplates)
RenderTimes == {0, (3 * Sec) \div 2, 11 * Sec}
ViewHeights == {400}

\* the PIXI ticker calls renderFrame(), as long as it is on the ticker
RenderFrame ==
    LET f == RenderFrameBody(renderer, pm, pool, poolLog, keys, ctxTime, perfNow)
    IN  /\ renderer.ticker
        /\ renderer' = f.renderer
        /\ pm' = f.pm
        /\ pool' = f.pool
        /\ poolLog' = f.log
        /\ keys' = f.keys
        /\ frame' = f.frame
        /\ lastOp' = Op("renderFrame", None, f.frame.time)
        /\ UNCHANGED <<ctxState, ctxTime, perfNow, playPending, chain>>

\* the transport moves the clock between frames
RenderSeek ==
    \E t \in RenderTimes :
        /\ pm' = SeekBody(Enter(pm), t, ctxTime, perfNow)
        /\ lastOp' = Op("seek", t, None)
        /\ UNCHANGED <<ctxState, ctxTime, perfNow, playPending, chain>>
        /\ UNCHANGED renderVars

\* setTrackVisibility(leftHand, rightHand)
RenderSetTrackVisibility ==
    \E l \in BOOLEAN, rh \in BOOLEAN :
        /\ renderer' = [renderer EXCEPT !.leftHandActive = l,
                                         !.rightHandActive = rh]
        /\ lastOp' = Op("setTrackVisibility", None, None)
        /\ UNCHANGED <<pm, ctxState, ctxTime, perfNow, playPending, chain>>
        /\ UNCHANGED <<pool, poolLog, keys, frame>>

\* the component unmounts: destroy()
RenderDestroy ==
    LET d == Destroy(renderer, pool, keys)
    IN  /\ renderer' = d.renderer
        /\ pool' = d.pool
        /\ keys' = d.keys
        /\ frame' = [frame EXCEPT !.steps = d.steps]
        /\ lastOp' = Op("destroy", None, None)
        /\ UNCHANGED <<pm, ctxState, ctxTime, perfNow, playPending, chain>>
        /\ UNCHANGED poolLog

\* The renderer initialised, its layout computed and a parsed file loaded
\* into it and into the clock's duration.
RenderInit ==
    /\ notes \in RenderNoteLists
    /\ \E h \in ViewHeights :
          renderer = RecalculateLayout(
                         RendererStarted([RendererInit EXCEPT !.notes = notes]), h)
    /\ \E size \in {1, MaxNotes} : pool = NotePoolInit(size)
    /\ poolLog = NoPoolLog
    /\ keys = {}
    /\ frame = NoFrame
    /\ store = StoreInit
    /\ schedulerTimer = None
    /\ seekFrom = None
    /\ midiFile = NoMidi
    /\ parsed = NoParse
    /\ visibleCall = NoVisible
    /\ synth = AudioSynthInit
    /\ engine = [id \in NoteIds |-> 0]
    /\ lastCall = NoCall
    /\ pm = [PlaybackManagerInit EXCEPT !.duration = DurationOf(notes)]
    /\ ctxState = "none"
    /\ ctxTime = 0
    /\ perfNow = 0
    /\ playPending = 0
    /\ lastOp = Op("new", None, None)
    /\ chain = None

RenderNext ==
    \/ RenderFrame /\ UNCHANGED <<synthVars, appVars, parserVars>>
    \/ RenderSeek /\ UNCHANGED <<synthVars, appVars, parserVars>>
    \/ RenderSetTrackVisibility /\ UNCHANGED <<synthVars, appVars, parserVars>>
    \/ RenderDestroy /\ UNCHANGED <<synthVars, appVars, parserVars>>

SpecRender == RenderInit /\ [][RenderNext]_vars

\* Files of one-second notes: a middle C at 0 and a left-hand D at 2 s.
LoadTemplates == {<<60, 0, Sec, 0>>, <<62, 2 * Sec, Sec, 1>>}
LoadNoteLists == NoteListsOver(LoadTemplates)

\* Another file is loaded while the renderer runs: handleFileSelect sets
\* the clock's duration, seeks to 0 and hands the list to loadNotes.
RenderLoadNotes ==
    \E ns \in LoadNoteLists :
        /\ notes' = ns
        /\ renderer' = LoadNotes(renderer, ns)
        /\ pm' = SeekBody([Enter(pm) EXCEPT !.duration = DurationOf(ns)],
                          0, ctxTime, perfNow)
        /\ lastOp' = Op("loadNotes", None, None)
        /\ UNCHANGED <<ctxState, ctxTime, perfNow, playPending, chain>>
        /\ UNCHANGED <<pool, poolLog, keys, frame>>

RenderLoadNext ==
    \/ RenderFrame /\ UNCHANGED <<synthVars, appVars, parserVars>>
    \/ RenderSeek /\ UNCHANGED <<synthVars, appVars, parserVars>>
    \/ RenderSetTrackVisibility /\ UNCHANGED <<synthVars, appVars, parserVars>>
    \/ RenderLoadNotes /\ UNCHANGED <<synth, engine, lastCall, appVars, parserVars>>

\* The renderer initialised and the first file loaded.
RenderLoadInit ==
    /\ notes \in LoadNoteLists
    /\ \E h \in ViewHeights :
          renderer = RecalculateLayout(
                         RendererStarted(LoadNotes(RendererInit, notes)), h)
    /\ \E size \in {1, MaxNotes} : pool = NotePoolInit(size)
    /\ poolLog = NoPoolLog
    /\ keys = {}
    /\ frame = NoFrame
    /\ store = StoreInit
    /\ schedulerTimer = None
    /\ seekFrom = None
    /\ midiFile = NoMidi
    /\ parsed = NoParse
    /\ visibleCall = NoVisible
    /\ synth = AudioSynthInit
    /\ engine = [id \in NoteIds |-> 0]
    /\ lastCall = NoCall
    /\ pm = [PlaybackManagerInit EXCEPT !.duration = DurationOf(notes)]
    /\ ctxState = "none"
    /\ ctxTime = 0
    /\ perfNow = 0
    /\ playPending = 0
    /\ lastOp = Op("new", None, None)
    /\ chain = None

SpecRenderLoad == RenderLoadInit /\ [][RenderLoadNext]_vars

\* The pitches of the loaded list that sound at `time` on a track that is
\* shown: time in [start, end].
SoundingPitches(r, time) ==
    {r.notes[k].pitch : k \in
        {j \in 1 .. Len(r.notes) :
            /\ r.notes[j].startTimeSec <= time
            /\ time <= r.notes[j].endTimeSec
            /\ ~TrackHidden(r.notes[j], r)}}

\* C38: after every frame tick, each key 21..108 is asserted active exactly
\* when the loaded list has a note of its pitch, on a track that is shown,
\* with T in [start, end]; and when nothing of the list sounds and nothing
\* is loaded, no sprite is left visible.
C38_KeysFollowLoadedNotes ==
    lastOp.op = "renderFrame" =>
        LET T == GetVisualTime(pm, ctxTime, perfNow).ret
        IN  /\ \A p \in MIDI_MIN .. MIDI_MAX :
                  p \in keys <=> p \in SoundingPitches(renderer, T)
            /\ Len(renderer.notes) = 0 => pool.visible = {}

----------------------------------------------------------------------------
(* Claims about the renderer, checked under SpecRender *)

\* The notes of the list that overlap [T - 0.5 s, T + L], L = canvasH / pps.
BruteForce(r, time) ==
    {r.notes[k].id : k \in
        {j \in 1 .. Len(r.notes) :
            /\ (r.notes[j].startTimeSec - time) * r.pixelsPerSecond
                  <= r.canvasHeight * Sec
            /\ r.notes[j].endTimeSec >= time - Sec \div 2}}

\* C7: with no track muted, every pitch mapped and the pool not exhausted,
\* the notes a frame keeps after its binary search, forward scan and
\* look-behind skip are exactly the notes with start <= T + L and
\* end >= T - 0.5, notes held longer than the 10 s look-back included.
C7_KeptEqualsBruteForce ==
    (/\ lastOp.op = "renderFrame"
     /\ frame.ran
     /\ ~frame.exhausted
     /\ renderer.leftHandActive /\ renderer.rightHandActive
     /\ \A k \in 1 .. Len(renderer.notes) : KeyValid(renderer.notes[k].pitch))
        => Range(frame.kept) = BruteForce(renderer, frame.time)

\* C8: in every frame, each pitch whose active bit goes from inactive to
\* active is signalled one activate, each pitch whose bit goes from active to
\* inactive one deactivate, and a pitch whose bit is unchanged nothing.
C8_OneSignalPerFlip ==
    [][lastOp'.op = "renderFrame" =>
         \A p \in MIDI_MIN .. MIDI_MAX :
            LET was == p \in renderer.activeThisFrame
                is == p \in renderer'.activeThisFrame
            IN  /\ Occurrences(frame'.signals, <<"activate", p>>)
                      = IF ~was /\ is THEN 1 ELSE 0
                /\ Occurrences(frame'.signals, <<"deactivate", p>>)
                      = IF was /\ ~is THEN 1 ELSE 0]_vars

\* Middle C sounded at T = 0, and the frame at T = 1.5 s, after it ended,
\* has sent its one deactivate.
C8_Witness ==
    /\ lastOp.op = "renderFrame"
    /\ frame.time = (3 * Sec) \div 2
    /\ frame.signals = << <<"deactivate", 60>> >>
    /\ 60 \notin keys
    /\ 60 \in renderer.activeLastFrame

\* The positions of the list a frame at `time` has a sprite to draw for:
\* inside the window, track shown, pitch on the keyboard, on screen.
Drawable(r, time) ==
    {k \in 1 .. Len(r.notes) :
        /\ ~AfterWindow(r.notes[k], r, time)
        /\ ~BeforeWindow(r.notes[k], time)
        /\ r.notes[k].startTimeSec >= SearchTime(time)
        /\ ~TrackHidden(r.notes[k], r)
        /\ KeyValid(r.notes[k].pitch)
        /\ ~OffScreen(r.notes[k], r, time)}

\* C23: a frame draws at most as many notes as the pool holds; when it has
\* more to draw, it draws the first `capacity` of them, drops the others and
\* still completes; and every frame hands out the slots 0, 1, ... anew,
\* whatever the frame before it used.
C23_ExhaustedDropsRest ==
    (lastOp.op = "renderFrame" /\ frame.ran) =>
        LET want == Drawable(renderer, frame.time)
        IN  /\ Len(frame.drawn) <= pool.poolSize
            /\ Len(frame.drawn) = Min(pool.poolSize, Cardinality(want))
            /\ Range(frame.drawn) \subseteq {renderer.notes[k].id : k \in want}
            /\ frame.exhausted <=> Cardinality(want) > pool.poolSize
            /\ pool.activeCount = Len(frame.drawn)
            /\ poolLog.round = [k \in 1 .. Len(frame.drawn) |-> k - 1]

\* Two frames in a row of a pool of one sprite with two notes to draw: each
\* drew one note on slot 0 and dropped the other.
C23_Witness ==
    /\ lastOp.op = "renderFrame"
    /\ frame.ran
    /\ frame.exhausted
    /\ pool.poolSize = 1
    /\ Cardinality(Drawable(renderer, frame.time)) = 2
    /\ Len(frame.drawn) = 1
    /\ poolLog.prev = <<0>>
    /\ poolLog.round = <<0>>

\* C25: destroy() on an initialised renderer takes renderFrame off the
\* ticker first, while the keys and the pool are as they were; then sets
\* every key inactive, while the pool still exists; then destroys the pool.
\* Afterwards no key is active, and no frame runs while the callback is off
\* the ticker.
C25_DestroyInOrder ==
    /\ [][(lastOp'.op = "destroy" /\ renderer.app)
             => LET steps == frame'.steps
                IN  /\ Len(steps) = 3
                    /\ steps[1].step = "detach"
                    /\ ~steps[1].ticker
                    /\ steps[1].keys = keys
                    /\ steps[1].notePool
                    /\ steps[2].step = "keys"
                    /\ ~steps[2].ticker
                    /\ steps[2].keys = {}
                    /\ steps[2].notePool
                    /\ steps[3].step = "pool"
                    /\ ~steps[3].notePool
                    /\ keys' = {}
                    /\ ~renderer'.ticker]_vars
    /\ [][~renderer.ticker => (lastOp'.op # "renderFrame" /\ keys' = {})]_vars

\* destroy() has run on a renderer whose last frame had lit middle C, and a
\* seek was made afterwards: the key is dark and stays so.
C25_Witness ==
    /\ ~renderer.ticker
    /\ ~renderer.notePool
    /\ 60 \in renderer.activeThisFrame
    /\ keys = {}
    /\ lastOp.op = "seek"

----------------------------------------------------------------------------
(* The clock called directly *)

ClockInit ==
    /\ pool = NotePoolInit(0)
    /\ poolLog = NoPoolLog
    /\ renderer = RendererInit
    /\ keys = {}
    /\ frame = NoFrame
    /\ store = StoreInit
    /\ schedulerTimer = None
    /\ seekFrom = None
    /\ midiFile = NoMidi
    /\ parsed = NoParse
    /\ visibleCall = NoVisible
    /\ notes = << >>
    /\ synth = AudioSynthInit
    /\ engine = [id \in NoteIds |-> 0]
    /\ lastCall = NoCall
    /\ pm = PlaybackManagerInit
    /\ ctxState = "none"
    /\ ctxTime = 0
    /\ perfNow = 0
    /\ playPending = 0
    /\ lastOp = Op("new", None, None)
    /\ chain = None

ClockNext ==
    \/ AdvanceClock /\ UNCHANGED <<synthVars, appVars, renderVars, parserVars>>
    \/ ResumeDone /\ UNCHANGED <<synthVars, appVars, renderVars, parserVars>>
    \/ Play /\ UNCHANGED <<synthVars, appVars, renderVars, parserVars>>
    \/ PlayResume /\ UNCHANGED <<synthVars, appVars, renderVars, parserVars>>
    \/ Pause /\ UNCHANGED <<synthVars, appVars, renderVars, parserVars>>
    \/ Stop /\ UNCHANGED <<synthVars, appVars, renderVars, parserVars>>
    \/ Seek /\ UNCHANGED <<synthVars, appVars, renderVars, parserVars>>
    \/ SetPlaybackRate /\ UNCHANGED <<synthVars, appVars, renderVars, parserVars>>
    \/ SetDuration /\ UNCHANGED <<synthVars, appVars, renderVars, parserVars>>
    \/ GetTimeRead /\ UNCHANGED <<synthVars, appVars, renderVars, parserVars>>
    \/ GetVisualTimeRead /\ UNCHANGED <<synthVars, appVars, renderVars, parserVars>>

SpecClock == ClockInit /\ [][ClockNext]_vars

----------------------------------------------------------------------------
(* Claims about the clock, checked under SpecClock *)

Clamp(t, d) == Max(0, Min(t, d))

\* C3: in every clock state (Stopped, Paused or Playing), a getTime() made
\* right after seek(t) returns clamp(t, 0, duration).
C3_SeekThenGetTime ==
    lastOp.op = "seek" =>
        GetTime(pm, ctxTime).ret = Clamp(lastOp.arg, pm.duration)

\* C3 witness: a seek into the song made while Playing, after the hardware
\* clock has run on from the last anchor.
C3_Witness ==
    /\ lastOp.op = "seek"
    /\ lastOp.arg = Sec
    /\ pm.isPlaying
    /\ pm.playStartedAtCtx > 0
    /\ pm.songPosition = Sec

\* C4: with rate > 0, consecutive getTime() reads that started while Playing
\* and have no other call between them never decrease; a read that reaches
\* duration leaves the clock not playing, and every later read returns
\* duration.
C4_ReadsMonotonic ==
    /\ [][(chain # None /\ chain' # None /\ pm.playbackRate > 0)
             => chain' >= chain]_vars
    /\ [](chain # None /\ chain >= pm.duration
             => ~pm.isPlaying /\ chain = pm.duration)
    /\ [][(chain # None /\ chain = pm.duration /\ chain' # None)
             => chain' = pm.duration]_vars

\* C4 witness: a read, following an earlier read below duration, is the one
\* that reaches duration.
C4_Witness ==
    /\ lastOp.op = "getTime"
    /\ pm.ended
    /\ chain = pm.duration
    /\ pm.duration > 0
    /\ ~pm.isPlaying

\* C5: play() called while Playing changes neither the reference tick, the
\* song position, the smoothed time nor the state, notifies no listener and
\* leaves no anchoring pending.
C5_PlayWhilePlayingNoop ==
    [][(pm.isPlaying /\ lastOp'.op = "play")
         => /\ pm'.playStartedAtCtx = pm.playStartedAtCtx
            /\ pm'.songPosition = pm.songPosition
            /\ pm'.visualTime = pm.visualTime
            /\ pm'.lastVisualTick = pm.lastVisualTick
            /\ pm'.isPlaying
            /\ pm'.calls = << >>
            /\ playPending' = playPending]_vars

\* C5 witness: play() has returned at its guard while the clock was Playing
\* and the hardware clock had moved on from the anchor.
C5_Witness ==
    /\ lastOp.op = "play"
    /\ pm.isPlaying
    /\ playPending = 0
    /\ ctxTime > pm.playStartedAtCtx

\* C6: whichever call detects the end of the song (a time read, pause(),
\* seek() or setPlaybackRate()), the listener is invoked exactly once.
C6_OneTerminalNotification ==
    (pm.ended /\ lastOp.op \in {"getTime", "pause", "seek", "setPlaybackRate"})
        => Len(pm.calls) = 1

\* The last listener invocation of the call that led to the current state
\* carried the current authoritative time and isPlaying.
NotifiedCurrent(p, now) ==
    /\ Len(p.calls) >= 1
    /\ p.calls[Len(p.calls)] = <<GetTime(p, now).ret, p.isPlaying>>

\* C11: a play() that starts playback, a pause() that pauses, stop(), seek()
\* and setPlaybackRate() each invoke the registered listener with (current
\* authoritative time, isPlaying) before returning.
C11_MutatorsNotify ==
    [][(\/ lastOp'.op \in {"playResume", "stop", "seek", "setPlaybackRate"}
        \/ lastOp'.op = "pause" /\ pm.isPlaying)
          => NotifiedCurrent(pm', ctxTime')]_vars

\* C12: while Playing and below duration, the authoritative time read right
\* after setPlaybackRate(r) equals the one read right before it at the same
\* hardware instant, whatever the old and the new rate; and over the next
\* advance of the hardware clock the time grows at rate r (up to duration).
C12_RateChangeContinuous ==
    /\ [][(/\ lastOp'.op = "setPlaybackRate"
           /\ pm.isPlaying /\ pm.audioContext
           /\ GetTime(pm, ctxTime).ret < pm.duration)
             => /\ GetTime(pm', ctxTime').ret = GetTime(pm, ctxTime).ret
                /\ pm'.playbackRate = lastOp'.arg
                /\ pm'.isPlaying]_vars
    /\ [][(/\ lastOp.op = "setPlaybackRate"
           /\ pm.isPlaying
           /\ lastOp'.op = "advance")
             => GetTime(pm', ctxTime').ret
                  = Min(pm.duration,
                        GetTime(pm, ctxTime).ret
                           + ((ctxTime' - ctxTime) * lastOp.arg) \div 100)]_vars

\* The rate was doubled half a second into the song, while Playing.
C12_Witness ==
    /\ lastOp.op = "setPlaybackRate"
    /\ lastOp.arg = 200
    /\ pm.isPlaying
    /\ pm.songPosition = Sec \div 2
    /\ pm.playStartedAtCtx = ctxTime
    /\ pm.songPosition < pm.duration

\* C13: pause() when not playing changes nothing and notifies nobody; pause()
\* when Playing stores the authoritative time of that instant in songPosition
\* and leaves the clock not playing; and while not playing no step other than
\* a play, a seek or a stop changes what a time read returns, however far the
\* hardware clock advances.
C13_PauseHoldsTime ==
    /\ [][(lastOp'.op = "pause" /\ ~pm.isPlaying) => pm' = Enter(pm)]_vars
    /\ [][(lastOp'.op = "pause" /\ pm.isPlaying)
             => /\ pm'.songPosition = GetTime(pm, ctxTime).ret
                /\ ~pm'.isPlaying]_vars
    /\ [][(~pm.isPlaying /\ lastOp'.op \notin {"playResume", "seek", "stop"})
             => /\ ~pm'.isPlaying
                /\ GetTime(pm', ctxTime').ret = GetTime(pm, ctxTime).ret
                /\ GetVisualTime(pm', ctxTime', perfNow').ret
                      = GetTime(pm, ctxTime).ret]_vars

\* Paused half a second into the song; the hardware clock has moved on and a
\* read still returns the stored half second.
C13_Witness ==
    /\ ~pm.isPlaying
    /\ pm.songPosition = Sec \div 2
    /\ pm.duration > Sec \div 2
    /\ lastOp.op = "getTime"
    /\ lastOp.ret = Sec \div 2
    /\ ctxTime >= pm.playStartedAtCtx + Sec

\* C14: after stop() the clock is not playing and both the authoritative and
\* the smoothed time read 0.
C14_StopReadsZero ==
    lastOp.op = "stop"
        => /\ ~pm.isPlaying
           /\ GetTime(pm, ctxTime).ret = 0
           /\ GetVisualTime(pm, ctxTime, perfNow).ret = 0

\* stop() on a clock whose context exists, whose rate was changed and whose
\* hardware clock has run; the listener was told (0, false).
C14_Witness ==
    /\ lastOp.op = "stop"
    /\ pm.audioContext
    /\ ctxTime > 0
    /\ pm.playbackRate # 100
    /\ pm.duration > 0
    /\ pm.calls = << <<0, FALSE>> >>

\* C24: as long as no play() has created the AudioContext, getTime() and
\* getVisualTime() return the stored songPosition, whatever seek, stop,
\* pause and setPlaybackRate calls came before, and none of these calls (nor
\* a read) creates the AudioContext.
C24_NoClockReadsStored ==
    /\ [](~pm.audioContext =>
             /\ ctxState = "none"
             /\ GetTime(pm, ctxTime).ret = pm.songPosition
             /\ GetVisualTime(pm, ctxTime, perfNow).ret = pm.songPosition
             /\ lastOp.op \in {"getTime", "getVisualTime"}
                   => lastOp.ret = pm.songPosition)
    /\ [][(/\ ~pm.audioContext
           /\ lastOp'.op \in {"seek", "stop", "pause", "setPlaybackRate",
                              "getTime", "getVisualTime"})
             => /\ ~pm'.audioContext
                /\ ctxState' = "none"]_vars

\* No AudioContext yet; after a seek to 1 s, a rate change and 1.5 s of wall
\* time the smoothed read returned the 1 s stored.
C24_Witness ==
    /\ ~pm.audioContext
    /\ pm.songPosition = Sec
    /\ pm.playbackRate # 100
    /\ perfNow >= (3 * Sec) \div 2
    /\ lastOp.op = "getVisualTime"
    /\ lastOp.ret = Sec

\* What getTime() reads once the hardware clock has moved on by d from a
\* seek(t) made while Playing: min(clamp(t, 0, duration) + d * rate, duration).
SeekReadsOn ==
    (/\ lastOp.op = "seek"
     /\ pm.isPlaying \/ pm.ended
     /\ lastOp'.op = "advance")
        => GetTime(pm', ctxTime').ret
              = Min(Clamp(lastOp.arg, pm.duration)
                       + ((ctxTime' - ctxTime) * pm.playbackRate) \div 100,
                    pm.duration)

C31_StopNotOverridden ==
    [][(/\ lastOp.op \in {"stop", "pause"}
        /\ playPending > 0
        /\ ~pm.isPlaying
        /\ lastOp'.op = "playResume")
          => (~pm'.isPlaying /\ pm'.songPosition = pm.songPosition)]_vars

\* C32: when two play() calls overlap, the second one, completing while the
\* clock is already Playing, anchors nothing and notifies nobody, and the
\* authoritative time does not step backwards when it completes.
C32_OverlappingPlayOnce ==
    [][(/\ pm.isPlaying
        /\ playPending > 0
        /\ lastOp'.op = "playResume"
        /\ playPending' < playPending)
          => (/\ pm'.playStartedAtCtx = pm.playStartedAtCtx
              /\ pm'.calls = << >>
              /\ GetTime(pm', ctxTime').ret >= GetTime(pm, ctxTime).ret)]_vars

\* C33: in every reachable state of the clock, after any sequence of play,
\* pause, stop, seek, setPlaybackRate, duration updates and hardware-clock
\* advances, getTime() returns a value in [0, duration].
C33_TimeWithinSong ==
    /\ GetTime(pm, ctxTime).ret >= 0
    /\ GetTime(pm, ctxTime).ret <= pm.duration

----------------------------------------------------------------------------
(* The clock polled while the two hardware clocks drift apart *)

\* performance.now() and AudioContext.currentTime move by amounts of their
\* own between two polls: the wall clock by 10 ms or, in a stalled tab, by
\* 70 ms; the audio clock not at all or by 20 ms.
PerfSteps == {Sec \div 100, (7 * Sec) \div 100}
CtxSteps == {0, (2 * Sec) \div 100}
DriftHorizon == MaxTime * ((4 * Sec) \div 100)
DriftDurations == {Sec \div 10, 2 * Sec}

DriftAdvance ==
    /\ ctxState = "running"
    /\ perfNow < DriftHorizon
    /\ \E dp \in PerfSteps, dc \in CtxSteps :
          /\ perfNow' = perfNow + dp
          /\ ctxTime' = ctxTime + dc
    /\ lastOp' = Op("advance", None, None)
    /\ UNCHANGED <<pm, ctxState, playPending, chain>>

DriftSetDuration ==
    \E d \in DriftDurations :
        /\ ~pm.audioContext
        /\ pm' = [Enter(pm) EXCEPT !.duration = d]
        /\ lastOp' = Op("setDuration", d, None)
        /\ chain' = None
        /\ UNCHANGED <<ctxState, ctxTime, perfNow, playPending>>

\* The renderer polls once per frame: the wall clock has moved since its
\* last poll.
DriftPoll ==
    /\ lastOp.op = "advance"
    /\ GetVisualTimeRead

DriftNext ==
    \/ DriftAdvance /\ UNCHANGED <<synthVars, appVars, renderVars, parserVars>>
    \/ DriftSetDuration /\ UNCHANGED <<synthVars, appVars, renderVars, parserVars>>
    \/ Play /\ UNCHANGED <<synthVars, appVars, renderVars, parserVars>>
    \/ ResumeDone /\ UNCHANGED <<synthVars, appVars, renderVars, parserVars>>
    \/ PlayResume /\ UNCHANGED <<synthVars, appVars, renderVars, parserVars>>
    \/ DriftPoll /\ UNCHANGED <<synthVars, appVars, renderVars, parserVars>>

SpecDrift == ClockInit /\ [][DriftNext]_vars

----------------------------------------------------------------------------
(* Claims about the smoothed time, checked under SpecDrift *)

SnapThreshold == (5 * Sec) \div 100

Abs(x) == IF x >= 0 THEN x ELSE 0 - x

\* The authoritative time getVisualTime() computes, not clamped.
TrueAudioTime(p, now) ==
    p.songPosition + ((now - p.playStartedAtCtx) * p.playbackRate) \div 100

\* The drift a poll finds: the authoritative time less the smoothed time
\* advanced by the wall-clock time since the poll before.
DriftFound(p, now, perf) ==
    TrueAudioTime(p, now)
        - (p.visualTime + ((perf - p.lastVisualTick) * p.playbackRate) \div 100)

\* C26: a getVisualTime() poll made while Playing leaves the smoothed time
\* within 50 ms of the authoritative time: a drift above 50 ms is replaced by
\* the authoritative time itself, a smaller drift loses 1% of itself (to the
\* time unit) and keeps its sign; the value returned is the smoothed time,
\* or duration when that is less, and within 50 ms of what getTime() reads.
C26_SmoothedWithinThreshold ==
    [][(lastOp'.op = "getVisualTime" /\ pm.isPlaying /\ pm.audioContext)
         => LET true == TrueAudioTime(pm, ctxTime)
                drift == DriftFound(pm, ctxTime, perfNow)
                left == true - pm'.visualTime
            IN  /\ Abs(left) <= SnapThreshold
                /\ Abs(drift) > SnapThreshold => pm'.visualTime = true
                /\ Abs(drift) <= SnapThreshold =>
                      /\ left * drift >= 0
                      /\ (Abs(drift) - Abs(left)) * 100 <= Abs(drift)
                      /\ (Abs(drift) - Abs(left)) * 100 > Abs(drift) - 100
                /\ lastOp'.ret = Min(pm'.visualTime, pm.duration)
                /\ lastOp'.ret <= pm.duration
                /\ Abs(GetTime(pm', ctxTime').ret - lastOp'.ret)
                      <= SnapThreshold]_vars

\* A poll that found the audio clock 10 ms ahead left 9.9 ms of it.
C26_Witness ==
    /\ lastOp.op = "getVisualTime"
    /\ pm.isPlaying
    /\ TrueAudioTime(pm, ctxTime) - pm.visualTime = (99 * Sec) \div 10000
    /\ lastOp.ret = pm.visualTime
    /\ lastOp.ret < pm.duration

\* A poll after a stall of 70 ms of wall time snapped back to the audio
\* clock.
C26_WitnessSnap ==
    /\ lastOp.op = "getVisualTime"
    /\ pm.isPlaying
    /\ perfNow >= ctxTime + (7 * Sec) \div 100
    /\ pm.lastVisualTick = perfNow
    /\ pm.visualTime = TrueAudioTime(pm, ctxTime)

----------------------------------------------------------------------------
(* The clock called with rates of the caller's choice *)

\* Rates (percent) a caller of the clock may pass: none, a negative one, and
\* half speed.
AnyRates == {0 - 100, 0, 50}

SetAnyPlaybackRate ==
    \E r \in AnyRates :
        /\ pm' = SetPlaybackRateBody(Enter(pm), r, ctxTime, perfNow)
        /\ lastOp' = Op("setPlaybackRate", r, None)
        /\ chain' = None
        /\ UNCHANGED <<ctxState, ctxTime, perfNow, playPending>>

AnyRateNext ==
    \/ AdvanceClock /\ UNCHANGED <<synthVars, appVars, renderVars, parserVars>>
    \/ ResumeDone /\ UNCHANGED <<synthVars, appVars, renderVars, parserVars>>
    \/ Play /\ UNCHANGED <<synthVars, appVars, renderVars, parserVars>>
    \/ PlayResume /\ UNCHANGED <<synthVars, appVars, renderVars, parserVars>>
    \/ SetAnyPlaybackRate /\ UNCHANGED <<synthVars, appVars, renderVars, parserVars>>
    \/ SetDuration /\ UNCHANGED <<synthVars, appVars, renderVars, parserVars>>
    \/ GetTimeRead /\ UNCHANGED <<synthVars, appVars, renderVars, parserVars>>

SpecAnyRate == ClockInit /\ [][AnyRateNext]_vars

\* C27: in every reachable state of the clock, whatever rates
\* setPlaybackRate was called with, playbackRate is greater than 0.
C27_RatePositive == pm.playbackRate > 0

----------------------------------------------------------------------------
(* getVisibleNotes called on a sorted list *)

\* Notes held for 3 s and notes of half a second, starting at 0, 1 s or 2 s.
VisibleTemplates ==
    {<<60, st, d, 0>> : st \in {0, Sec, 2 * Sec}, d \in {Sec \div 2, 3 * Sec}}

VisibleNoteLists == NoteListsOver(VisibleTemplates)

VisibleTimes == {0, Sec, (3 * Sec) \div 2, 2 * Sec, 4 * Sec}
VisibleLookaheads == {0, Sec, 3 * Sec}

GetVisible ==
    \E t \in VisibleTimes, l \in VisibleLookaheads :
        /\ visibleCall' = [called |-> TRUE, currentTime |-> t,
                           lookaheadSec |-> l,
                           ret |-> GetVisibleNotes(notes, t, l)]
        /\ UNCHANGED <<midiFile, parsed>>

VisibleInit ==
    /\ notes \in VisibleNoteLists
    /\ midiFile = NoMidi
    /\ parsed = NoParse
    /\ visibleCall = NoVisible
    /\ pool = NotePoolInit(0)
    /\ poolLog = NoPoolLog
    /\ renderer = RendererInit
    /\ keys = {}
    /\ frame = NoFrame
    /\ store = StoreInit
    /\ schedulerTimer = None
    /\ seekFrom = None
    /\ synth = AudioSynthInit
    /\ engine = [id \in NoteIds |-> 0]
    /\ lastCall = NoCall
    /\ pm = PlaybackManagerInit
    /\ ctxState = "none"
    /\ ctxTime = 0
    /\ perfNow = 0
    /\ playPending = 0
    /\ lastOp = Op("new", None, None)
    /\ chain = None

VisibleNext ==
    \/ GetVisible /\ UNCHANGED <<clockVars, synthVars, appVars, renderVars>>

SpecVisible == VisibleInit /\ [][VisibleNext]_vars

RECURSIVE SelectVisible(_, _, _)
\* The notes of ns with startTimeSec <= T + L and endTimeSec > T, in list
\* order.
SelectVisible(ns, T, L) ==
    IF Len(ns) = 0
    THEN << >>
    ELSE LET rest == SelectVisible(Tail(ns), T, L)
         IN  IF Head(ns).startTimeSec <= T + L /\ Head(ns).endTimeSec > T
             THEN <<Head(ns)>> \o rest
             ELSE rest

\* C30: for any sorted note list, time T and lookahead L, getVisibleNotes
\* returns exactly the notes with startTimeSec <= T + L and endTimeSec > T,
\* in list order, a long note still sounding at T that is followed in the
\* list by a shorter note which has already ended included.
C30_VisibleIsWindow ==
    visibleCall.called =>
        visibleCall.ret
            = SelectVisible(notes, visibleCall.currentTime,
                            visibleCall.lookaheadSec)

----------------------------------------------------------------------------
(* The parser called on a decoded file *)

ParserTimes == {0, Sec}
ParserDurations == {Sec \div 2, 2 * Sec}
ParserPitches == {60, 62}

RawNotes ==
    {RawNote(p, t, d, 100) :
        p \in ParserPitches, t \in ParserTimes, d \in ParserDurations}

\* Files of two tracks holding at most MaxNotes notes between them, in any
\* order of time.
MidiFiles ==
    LET flat == UNION {[1 .. n -> RawNotes] : n \in 0 .. MaxNotes}
    IN  UNION {{<<SubSeq(f, 1, k), SubSeq(f, k + 1, Len(f))>> :
                   k \in 0 .. Len(f)} : f \in flat}

ParseFile ==
    /\ parsed = NoParse
    /\ parsed' = ParseMidiFile(midiFile)
    /\ UNCHANGED <<midiFile, visibleCall>>

ParserInit ==
    /\ midiFile \in MidiFiles
    /\ parsed = NoParse
    /\ visibleCall = NoVisible
    /\ pool = NotePoolInit(0)
    /\ poolLog = NoPoolLog
    /\ renderer = RendererInit
    /\ keys = {}
    /\ frame = NoFrame
    /\ store = StoreInit
    /\ schedulerTimer = None
    /\ seekFrom = None
    /\ notes = << >>
    /\ synth = AudioSynthInit
    /\ engine = [id \in NoteIds |-> 0]
    /\ lastCall = NoCall
    /\ pm = PlaybackManagerInit
    /\ ctxState = "none"
    /\ ctxTime = 0
    /\ perfNow = 0
    /\ playPending = 0
    /\ lastOp = Op("new", None, None)
    /\ chain = None

ParserNext ==
    \/ ParseFile /\ UNCHANGED <<clockVars, synthVars, appVars, renderVars>>

SpecParser == ParserInit /\ [][ParserNext]_vars

----------------------------------------------------------------------------
(* Claims about the parser, checked under SpecParser *)

\* How often the note `raw` of track index t occurs in a note list.
TimesIn(ns, raw, t) ==
    Cardinality({k \in 1 .. Len(ns) :
        /\ ns[k].trackId = t
        /\ ns[k].pitch = raw.midi
        /\ ns[k].startTimeSec = raw.time
        /\ ns[k].durationSec = raw.duration
        /\ ns[k].endTimeSec = raw.time + raw.duration})

\* C18: the parsed note list is in ascending order of startTimeSec and holds
\* exactly the notes of the file's tracks: as many notes as the tracks hold,
\* each note of each track as often as the track holds it, under ids that
\* differ.
C18_SortedSameNotes ==
    parsed.trackCount # None =>
        /\ IsSorted(parsed.notes)
        /\ Len(parsed.notes) = Len(midiFile[1]) + Len(midiFile[2])
        /\ \A i, j \in 1 .. Len(parsed.notes) :
              parsed.notes[i].id = parsed.notes[j].id => i = j
        /\ \A t \in 1 .. Len(midiFile), raw \in RawNotes :
              TimesIn(parsed.notes, raw, t - 1)
                  = Cardinality({k \in 1 .. Len(midiFile[t]) :
                                    midiFile[t][k] = raw})

\* The first track's only note starts after the second track's, and the sort
\* has put the second track's note, pushed second, in front.
C18_Witness ==
    /\ parsed.trackCount = 2
    /\ Len(midiFile[1]) = 1 /\ Len(midiFile[2]) = 1
    /\ midiFile[1][1].time > midiFile[2][1].time
    /\ parsed.notes[1].id = 1 /\ parsed.notes[1].trackId = 1
    /\ parsed.notes[2].id = 0 /\ parsed.notes[2].trackId = 0

\* C19: the parsed duration is the largest endTimeSec of the note list, 0 for
\* a file without notes, so no note of the list ends after it.
C19_DurationIsMaxEnd ==
    parsed.trackCount # None =>
        /\ Len(parsed.notes) = 0 => parsed.durationSec = 0
        /\ Len(parsed.notes) > 0 =>
              \E k \in 1 .. Len(parsed.notes) :
                  parsed.notes[k].endTimeSec = parsed.durationSec
        /\ \A k \in 1 .. Len(parsed.notes) :
              parsed.notes[k].endTimeSec <= parsed.durationSec

\* A long note from 0 s to 2 s and a short one from 1 s to 1.5 s: the note
\* that starts last ends before the duration.
C19_Witness ==
    /\ parsed.trackCount = 2
    /\ Len(parsed.notes) = 2
    /\ parsed.durationSec = 2 * Sec
    /\ parsed.notes[1].endTimeSec = 2 * Sec
    /\ parsed.notes[2].endTimeSec = (3 * Sec) \div 2

====
